---- MODULE Spec2Model ----
(***************************************************************************)
(* Dynamic Honey Badger: the vote counter (votes.rs), the engine           *)
(* (dynamic_honey_badger.rs), its batches (batch.rs) and key generation    *)
(* state (mod.rs).  Honey Badger and the synchronous key generation are    *)
(* external collaborators and are modelled by their interfaces.            *)
(* The kernel's block driver (minaos/src/block.rs) is modelled beside it.  *)
(***************************************************************************)
EXTENDS Integers, Sequences, FiniteSets, TLC

VARIABLES
    dhb,    \* the DynamicHoneyBadger under study (struct, dynamic_honey_badger.rs:22)
    joiner, \* TRUE iff dhb was constructed by new_joining
    hist,   \* one entry per emitted Batch, in emission order
    stored, \* for each voter in dhb's committed store, the signed vote it came from
    ct,     \* a stand-alone VoteCounter, as in votes.rs tests (ct = counters[0])
    last,   \* the last call made and the Step / FaultLog it returned
    peer,   \* the engine of a second validator of the same network
    feed,   \* per Honey Badger session, the batches the instance has committed
    outs,   \* the batches dhb (a) and peer (b) have emitted
    sent,   \* the signed votes sing_vote_for has returned: the network holds
            \* them and may deliver each at any time, again and in any order
    blk     \* the kernel: the process table, the kernel processes to run
            \* and BLOCK_DEVICES with the queue of each device (block.rs:109)

vars == <<dhb, joiner, hist, stored, ct, last, peer, feed, outs, sent, blk>>

----------------------------------------------------------------------------
(* Bounds of the model *)

\* largest vote sequence number the environment sends
MaxNum == 1
\* number of Honey Badger batches one engine processes
MaxBatches == 3

----------------------------------------------------------------------------
(* Small helpers *)

Min(S) == CHOOSE x \in S : \A y \in S : x <= y

RECURSIVE SetToSeq(_)
\* the elements of a set of node ids in increasing order (BTreeMap order)
SetToSeq(S) == IF S = {} THEN <<>> ELSE <<Min(S)>> \o SetToSeq(S \ {Min(S)})

\* m with key k mapped to v (BTreeMap::insert)
MapInsert(m, k, v) == [x \in DOMAIN m \cup {k} |-> IF x = k THEN v ELSE m[x]]

EmptyMap == [x \in {} |-> 0]

RECURSIVE SeqWithout(_, _)
\* Vec::retain(|x| !drop.contains(x)) for a sequence drop
SeqWithout(s, drop) ==
    IF s = <<>> THEN <<>>
    ELSE IF \E i \in 1..Len(drop) : drop[i] = Head(s)
         THEN SeqWithout(Tail(s), drop)
         ELSE <<Head(s)>> \o SeqWithout(Tail(s), drop)

\* util::max_faulty
max_faulty(n) == (n - 1) \div 3

----------------------------------------------------------------------------
(* Keys and signatures.  A public-key map is the set of node ids it has    *)
(* keys for; node n's long-term key pair is identified with n.             *)

\* SecretKey::sign over the serialized message
Sign(sk, msg) == [signer |-> sk, msg |-> msg]

\* PublicKey::verify
Verify(pk, sig, msg) == sig.signer = pk /\ sig.msg = msg

----------------------------------------------------------------------------
(* Changes and votes *)

NodeChange(pks) == [type |-> "NodeChange", pub_keys |-> pks]
EncryptionSchedule(s) == [type |-> "EncryptionSchedule", schedule |-> s]

Vote(change, era, num) == [change |-> change, era |-> era, num |-> num]
SignedVote(vote, voter, sig) == [vote |-> vote, voter |-> voter, sig |-> sig]

\* FaultLog::new / FaultLog::init / extend
NoFaults == <<>>
FaultLogInit(node, kind) == << [node |-> node, kind |-> kind] >>

----------------------------------------------------------------------------
(* VoteCounter, votes.rs *)

\* VoteCounter::new
VoteCounterNew(our_id, secret_key, pub_keys, era) ==
    [our_id |-> our_id, secret_key |-> secret_key, pub_keys |-> pub_keys,
     era |-> era, pending |-> EmptyMap, committed |-> EmptyMap]

\* VoteCounter::validate: the signature is checked against the voter's key
validate(vc, sv) ==
    sv.voter \in vc.pub_keys /\ Verify(sv.voter, sv.sig, sv.vote)

\* VoteCounter::sing_vote_for: returns the counter and the signed vote
sing_vote_for(vc, change) ==
    LET voter == vc.our_id
        num   == IF voter \in DOMAIN vc.pending
                 THEN vc.pending[voter].vote.num + 1 ELSE 0
        vote  == Vote(change, vc.era, num)
        sv    == SignedVote(vote, voter, Sign(vc.secret_key, vote))
    IN  [vc |-> [vc EXCEPT !.pending = MapInsert(vc.pending, voter, sv)],
         sv |-> sv]

\* VoteCounter::add_pending_vote.  The early exit at votes.rs:46-48 lacks
\* its `return`: the value Ok(FaultLog::new()) is dropped and control
\* reaches the signature check.
AddPendingFaultsVoter(vc, sender_id, sv) ==
    IF ~validate(vc, sv)
    THEN [vc |-> vc, faults |-> FaultLogInit(sv.voter, "InvalidVoteSignature")]
    ELSE [vc |-> [vc EXCEPT !.pending = MapInsert(vc.pending, sv.voter, sv)],
          faults |-> NoFaults]
add_pending_vote(vc, sender_id, sv) ==
    IF ~validate(vc, sv)
    THEN [vc |-> vc, faults |-> FaultLogInit(sender_id, "InvalidVoteSignature")]
    ELSE [vc |-> [vc EXCEPT !.pending = MapInsert(vc.pending, sv.voter, sv)],
          faults |-> NoFaults]

\* VoteCounter::pending_votes, in voter order
PendingVotesUpToCommitted(vc) ==
    LET keep == {v \in DOMAIN vc.pending :
                    v \in DOMAIN vc.committed
                        => vc.committed[v].num <= vc.pending[v].vote.num}
        order == SetToSeq(keep)
    IN  [i \in 1..Len(order) |-> vc.pending[order[i]]]
pending_votes(vc) ==
    LET keep == {v \in DOMAIN vc.pending :
                    v \in DOMAIN vc.committed
                        => vc.committed[v].num < vc.pending[v].vote.num}
        order == SetToSeq(keep)
    IN  [i \in 1..Len(order) |-> vc.pending[order[i]]]

\* VoteCounter::add_committed_vote
AddCommittedNoSupersede(vc, proposer_id, sv) ==
    IF sv.vote.era # vc.era \/ ~validate(vc, sv)
    THEN [vc |-> vc, faults |-> FaultLogInit(proposer_id, "InvalidCommittedVote")]
    ELSE [vc |-> [vc EXCEPT !.committed = MapInsert(vc.committed, sv.voter, sv.vote)],
          faults |-> NoFaults]
AddCommittedLatestWins(vc, proposer_id, sv) ==
    IF sv.voter \in DOMAIN vc.committed /\ vc.committed[sv.voter].num = sv.vote.num
    THEN [vc |-> vc, faults |-> NoFaults]
    ELSE IF sv.vote.era # vc.era \/ ~validate(vc, sv)
    THEN [vc |-> vc, faults |-> FaultLogInit(proposer_id, "InvalidCommittedVote")]
    ELSE [vc |-> [vc EXCEPT !.committed = MapInsert(vc.committed, sv.voter, sv.vote)],
          faults |-> NoFaults]
add_committed_vote(vc, proposer_id, sv) ==
    IF sv.voter \in DOMAIN vc.committed /\ vc.committed[sv.voter].num >= sv.vote.num
    THEN [vc |-> vc, faults |-> NoFaults]
    ELSE IF sv.vote.era # vc.era \/ ~validate(vc, sv)
    THEN [vc |-> vc, faults |-> FaultLogInit(proposer_id, "InvalidCommittedVote")]
    ELSE [vc |-> [vc EXCEPT !.committed = MapInsert(vc.committed, sv.voter, sv.vote)],
          faults |-> NoFaults]

\* one turn of the loop of add_committed_votes: acc is [vc, faults], r the
\* result of add_committed_vote
CommittedVoteAdded(acc, r) == [vc |-> r.vc, faults |-> acc.faults \o r.faults]

RECURSIVE AddCommittedVotesFrom(_, _, _)
AddCommittedVotesFrom(acc, proposer_id, svs) ==
    IF svs = <<>> THEN acc
    ELSE AddCommittedVotesFrom(
             CommittedVoteAdded(acc, add_committed_vote(acc.vc, proposer_id, Head(svs))),
             proposer_id, Tail(svs))

RECURSIVE AddCommittedVotesStopping(_, _, _)
AddCommittedVotesStopping(acc, proposer_id, svs) ==
    IF svs = <<>> \/ acc.faults # NoFaults THEN acc
    ELSE AddCommittedVotesStopping(
             CommittedVoteAdded(acc, add_committed_vote(acc.vc, proposer_id, Head(svs))),
             proposer_id, Tail(svs))

\* VoteCounter::add_committed_votes
AddCommittedVotesUntilFault(vc, proposer_id, svs) ==
    AddCommittedVotesStopping([vc |-> vc, faults |-> NoFaults], proposer_id, svs)
add_committed_votes(vc, proposer_id, svs) ==
    AddCommittedVotesFrom([vc |-> vc, faults |-> NoFaults], proposer_id, svs)

\* number of committed votes among the first k voters (in voter order)
\* that name change c
CountFor(vc, order, k, c) ==
    Cardinality({i \in 1..k : vc.committed[order[i]].change = c})

\* VoteCounter::compute_winner: the change whose running count first
\* exceeds max_faulty while scanning committed in voter order, or "None"
ComputeWinnerAtLeastF(vc) ==
    LET order == SetToSeq(DOMAIN vc.committed)
        f     == max_faulty(Cardinality(vc.pub_keys))
        hits  == {k \in 1..Len(order) :
                    CountFor(vc, order, k, vc.committed[order[k]].change) >= f}
    IN  IF hits = {} THEN [some |-> FALSE]
        ELSE [some |-> TRUE, change |-> vc.committed[order[Min(hits)]].change]
ComputeWinnerNoThreshold(vc) ==
    LET order == SetToSeq(DOMAIN vc.committed)
        hits  == {k \in 1..Len(order) :
                    CountFor(vc, order, k, vc.committed[order[k]].change) > 0}
    IN  IF hits = {} THEN [some |-> FALSE]
        ELSE [some |-> TRUE, change |-> vc.committed[order[Min(hits)]].change]
ComputeWinnerLastHit(vc) ==
    LET order == SetToSeq(DOMAIN vc.committed)
        f     == max_faulty(Cardinality(vc.pub_keys))
        hits  == {k \in 1..Len(order) :
                    CountFor(vc, order, k, vc.committed[order[k]].change) > f}
    IN  IF hits = {} THEN [some |-> FALSE]
        ELSE [some |-> TRUE,
              change |-> vc.committed[order[CHOOSE k \in hits : \A h \in hits : h <= k]].change]
compute_winner(vc) ==
    LET order == SetToSeq(DOMAIN vc.committed)
        f     == max_faulty(Cardinality(vc.pub_keys))
        hits  == {k \in 1..Len(order) :
                    CountFor(vc, order, k, vc.committed[order[k]].change) > f}
    IN  IF hits = {} THEN [some |-> FALSE]
        ELSE [some |-> TRUE, change |-> vc.committed[order[Min(hits)]].change]

----------------------------------------------------------------------------
(* Data types of mod.rs and batch.rs *)

NoChange == [state |-> "None"]
InProgress(c) == [state |-> "InProgress", change |-> c]
Complete(c) == [state |-> "Complete", change |-> c]

\* honey_badger::Params
Params(schedule) ==
    [max_future_epochs |-> 3, encryption_schedule |-> schedule,
     subset_handling_strategy |-> "Incremental"]

\* NetworkInfo::new(our_id, secret_key_share, public_key_set, all_ids)
NetworkInfoNew(our_id, sk_share, pk_set, all_ids) ==
    [our_id |-> our_id, sk_share |-> sk_share, pk_set |-> pk_set,
     all_ids |-> all_ids]

\* NetworkInfo::is_validator: we hold a secret key share
is_validator(netinfo) == netinfo.sk_share

\* KeyGenMessage::Part / KeyGenMessage::Ack
Part(ok) == [kind |-> "Part", ok |-> ok]
Ack(proposer, ok) == [kind |-> "Ack", proposer |-> proposer, ok |-> ok]

\* struct SignedKeyGenMsg(era, sender, kg_msg, sig)
SignedKeyGenMsg(era, sender, kg_msg, sig) ==
    [era |-> era, sender |-> sender, kg_msg |-> kg_msg, sig |-> sig]

\* Message::HoneyBadger / Message::KeyGen / Message::SignedVote
MsgHoneyBadger(era, hb_msg) == [type |-> "HoneyBadger", era |-> era, hb_msg |-> hb_msg]
MsgKeyGen(era, kg_msg, sig) == [type |-> "KeyGen", era |-> era, kg_msg |-> kg_msg, sig |-> sig]
MsgSignedVote(sv) == [type |-> "SignedVote", sv |-> sv]

\* Message::era
MessageEra(msg) ==
    IF msg.type = "SignedVote" THEN msg.sv.vote.era ELSE msg.era

\* InternalContrib
InternalContrib(contrib, key_gen_messages, votes) ==
    [contrib |-> contrib, key_gen_messages |-> key_gen_messages, votes |-> votes]

\* Step::default and Step composition
EmptyStep == [output |-> <<>>, fault_log |-> <<>>, messages |-> <<>>]
StepExtend(a, b) ==
    [output |-> a.output \o b.output, fault_log |-> a.fault_log \o b.fault_log,
     messages |-> a.messages \o b.messages]
StepFault(node, kind) == [EmptyStep EXCEPT !.fault_log = FaultLogInit(node, kind)]
\* Target::all().message(msg)
StepBroadcast(msg) == [EmptyStep EXCEPT !.messages = << [target |-> "All", message |-> msg] >>]

----------------------------------------------------------------------------
(* SyncKeyGen, the synchronous key generation the engine drives.  Its code *)
(* is outside the source tree; this is its interface as the engine uses it *)

\* SyncKeyGen::new: the instance and, if we are one of the candidates, our Part
SyncKeyGenNew(our_id, sk, pub_keys, threshold) ==
    [key_gen |-> [our_id |-> our_id, pub_keys |-> pub_keys,
                  threshold |-> threshold, parts |-> {}, acks |-> {}],
     part |-> IF our_id \in pub_keys THEN [some |-> TRUE, part |-> Part(TRUE)]
              ELSE [some |-> FALSE]]

\* SyncKeyGen::handle_part: Valid(Some(ack)) | Valid(None) | Invalid(fault)
SkgHandlePart(kg, sender_id, part) ==
    IF sender_id \notin kg.pub_keys \/ ~part.ok
    THEN [kg |-> kg, outcome |-> "Invalid", ack |-> [some |-> FALSE]]
    ELSE IF sender_id \in kg.parts
    THEN [kg |-> kg, outcome |-> "Valid", ack |-> [some |-> FALSE]]
    ELSE [kg |-> [kg EXCEPT !.parts = @ \cup {sender_id}],
          outcome |-> "Valid",
          ack |-> IF kg.our_id \in kg.pub_keys
                  THEN [some |-> TRUE, ack |-> Ack(sender_id, TRUE)]
                  ELSE [some |-> FALSE]]

\* SyncKeyGen::handle_ack: Valid | Invalid(fault)
SkgHandleAck(kg, sender_id, ack) ==
    IF sender_id \notin kg.pub_keys \/ ~ack.ok \/ ack.proposer \notin kg.parts
    THEN [kg |-> kg, outcome |-> "Invalid"]
    ELSE [kg |-> [kg EXCEPT !.acks = @ \cup {<<ack.proposer, sender_id>>}],
          outcome |-> "Valid"]

\* SyncKeyGen::count_complete: parts acknowledged by more than 2 * threshold nodes
SkgCountComplete(kg) ==
    Cardinality({p \in kg.parts :
        Cardinality({a \in kg.pub_keys : <<p, a>> \in kg.acks}) > 2 * kg.threshold})

\* SyncKeyGen::is_ready
SkgIsReady(kg) == SkgCountComplete(kg) > kg.threshold

\* SyncKeyGen::generate: the new public key set and our share, if any
SkgGenerate(kg) ==
    [pk_set |-> [keys |-> kg.pub_keys, threshold |-> kg.threshold],
     sk_share |-> kg.our_id \in kg.pub_keys]

----------------------------------------------------------------------------
(* KeyGenState, mod.rs *)

NoKeyGen == [some |-> FALSE]

\* KeyGenState::new
KeyGenStateNew(key_gen) == [some |-> TRUE, key_gen |-> key_gen, msg_count |-> EmptyMap]

\* KeyGenState::is_ready
KgsIsReadyInner(kgs) == SkgIsReady(kgs.key_gen)
KgsIsReady(kgs) ==
    /\ SkgIsReady(kgs.key_gen)
    /\ SkgCountComplete(kgs.key_gen) * 3 > 2 * Cardinality(kgs.key_gen.pub_keys)

\* KeyGenState::count_messages: the state and the incremented count
KgsCountMessages(kgs, node_id) ==
    LET count == (IF node_id \in DOMAIN kgs.msg_count THEN kgs.msg_count[node_id] ELSE 0) + 1
    IN  [kgs |-> [kgs EXCEPT !.msg_count = MapInsert(kgs.msg_count, node_id, count)],
         count |-> count]

----------------------------------------------------------------------------
(* Honey Badger, the atomic broadcast the engine wraps.  Its code is       *)
(* outside the source tree; this is its interface as the engine uses it.   *)

\* HoneyBadger::builder(netinfo).session_id(era).params(params).epoch(epoch).build()
HoneyBadgerBuild(netinfo, session_id, params, epoch) ==
    [netinfo |-> netinfo, session_id |-> session_id, params |-> params,
     epoch |-> epoch, has_input |-> FALSE, input |-> <<>>]

\* the Step a Honey Badger call returns when it completes the epochs whose
\* contribution maps are contents (none, one or several), in epoch order
HbStep(hb, contents) ==
    [output |-> [i \in 1..Len(contents) |->
                    [epoch |-> hb.epoch + i - 1, contributions |-> contents[i]]],
     fault_log |-> <<>>, messages |-> <<>>]

\* Honey Badger after a call that completed the epochs of contents
HbAdvance(hb, contents) ==
    IF contents = <<>> THEN hb
    ELSE [hb EXCEPT !.epoch = @ + Len(contents), !.has_input = FALSE, !.input = <<>>]

\* HoneyBadger::propose: a validator's contribution for the current epoch
\* is recorded; a second proposal in the same epoch is ignored
HbPropose(hb, contrib) ==
    IF ~hb.netinfo.sk_share \/ hb.has_input THEN hb
    ELSE [hb EXCEPT !.has_input = TRUE, !.input = contrib]

----------------------------------------------------------------------------
(* DynamicHoneyBadger, dynamic_honey_badger.rs.  An operation on the       *)
(* engine d yields [d, step]; intermediate results are handed on as        *)
(* arguments of the operator that continues the function body.             *)

\* DynamicHoneyBadger::new
DynamicHoneyBadgerNew(secret_key, pub_keys, ni, params, era, epoch) ==
    [secret_key |-> secret_key,
     pub_keys |-> pub_keys,
     max_future_epochs |-> params.max_future_epochs,
     era |-> era,
     vote_counter |-> VoteCounterNew(ni.our_id, secret_key, pub_keys, era),
     key_gen_msg_buffer |-> <<>>,
     honey_badger |-> HoneyBadgerBuild(ni, era, params, epoch),
     key_gen_state |-> NoKeyGen]

\* DynamicHoneyBadger::netinfo / our_id
netinfo(d) == d.honey_badger.netinfo
our_id(d) == netinfo(d).our_id

\* DynamicHoneyBadger::next_epoch
next_epoch(d) == d.era + d.honey_badger.epoch

\* DynamicHoneyBadger::verify_signature: the current or the candidate key
verify_signature(d, node_id, sig, kg_msg) ==
    \/ node_id \in d.pub_keys /\ Verify(node_id, sig, kg_msg)
    \/ /\ d.key_gen_state.some
       /\ node_id \in d.key_gen_state.key_gen.pub_keys
       /\ Verify(node_id, sig, kg_msg)

\* DynamicHoneyBadger::restart_honey_badger
RestartKeepVotes(d, era, params, ni) ==
    [d EXCEPT !.era = era,
              !.key_gen_msg_buffer = SelectSeq(@, LAMBDA m : m.era >= era),
              !.honey_badger = HoneyBadgerBuild(ni, era, params, 0)]
RestartKeepBuffer(d, era, params, ni) ==
    [d EXCEPT !.era = era,
              !.vote_counter = VoteCounterNew(our_id(d), d.secret_key, d.pub_keys, era),
              !.honey_badger = HoneyBadgerBuild(ni, era, params, 0)]
RestartKeepEra(d, era, params, ni) ==
    [d EXCEPT !.key_gen_msg_buffer = SelectSeq(@, LAMBDA m : m.era >= era),
              !.vote_counter = VoteCounterNew(our_id(d), d.secret_key, d.pub_keys, d.era),
              !.honey_badger = HoneyBadgerBuild(ni, d.era, params, 0)]
restart_honey_badger(d, era, params, ni) ==
    [d EXCEPT !.era = era,
              !.key_gen_msg_buffer = SelectSeq(@, LAMBDA m : m.era >= era),
              !.vote_counter = VoteCounterNew(our_id(d), d.secret_key, d.pub_keys, era),
              !.honey_badger = HoneyBadgerBuild(ni, era, params, 0)]

\* DynamicHoneyBadger::update_encryption_schedule
update_encryption_schedule(d, era, schedule) ==
    restart_honey_badger(d, era,
        [d.honey_badger.params EXCEPT !.encryption_schedule = schedule], netinfo(d))

\* send_transaction, lines 370-376, with the signature of line 369
SendSigned(d, kg_msg, sig) ==
    [d |-> IF is_validator(netinfo(d))
           THEN [d EXCEPT !.key_gen_msg_buffer =
                    Append(@, SignedKeyGenMsg(d.era, our_id(d), kg_msg, sig))]
           ELSE d,
     step |-> StepBroadcast(MsgKeyGen(d.era, kg_msg, sig))]

\* DynamicHoneyBadger::send_transaction
send_transaction(d, kg_msg) == SendSigned(d, kg_msg, Sign(d.secret_key, kg_msg))

\* update_key_gen, lines 312-317: new is what SyncKeyGen::new returned
KeyGenStarted(d, new) ==
    IF new.part.some
    THEN send_transaction([d EXCEPT !.key_gen_state = KeyGenStateNew(new.key_gen)],
                          new.part.part)
    ELSE [d |-> [d EXCEPT !.key_gen_state = KeyGenStateNew(new.key_gen)],
          step |-> EmptyStep]

\* update_key_gen, lines 308-311: d is the engine after the restart
StartKeyGen(d, pub_keys) ==
    KeyGenStarted(d, SyncKeyGenNew(our_id(d), d.secret_key, pub_keys,
                                   max_faulty(Cardinality(pub_keys))))

\* DynamicHoneyBadger::update_key_gen.  The early exit at lines 301-303
\* lacks its `return`: its value is dropped and the restart always happens.
UpdateKeyGenNoRestart(d, era, pub_keys) == StartKeyGen(d, pub_keys)
update_key_gen(d, era, pub_keys) ==
    StartKeyGen(restart_honey_badger(d, era, d.honey_badger.params, netinfo(d)),
                pub_keys)

WithKeyGen(d, kg) == [d EXCEPT !.key_gen_state.key_gen = kg]

\* handle_part, lines 340-347: r is what SyncKeyGen::handle_part returned
PartHandled(d, sender_id, r) ==
    IF r.outcome = "Invalid"
    THEN [d |-> WithKeyGen(d, r.kg), step |-> StepFault(sender_id, "SyncKeyGenPart")]
    ELSE IF r.ack.some THEN send_transaction(WithKeyGen(d, r.kg), r.ack.ack)
    ELSE [d |-> WithKeyGen(d, r.kg), step |-> EmptyStep]

\* DynamicHoneyBadger::handle_part.  Without a key generation the branch at
\* lines 335-338 builds a fault and drops it.
handle_part(d, sender_id, part) ==
    IF ~d.key_gen_state.some THEN [d |-> d, step |-> EmptyStep]
    ELSE PartHandled(d, sender_id,
                     SkgHandlePart(d.key_gen_state.key_gen, sender_id, part))

\* handle_ack, lines 358-364: r is what SyncKeyGen::handle_ack returned
AckHandled(d, sender_id, r) ==
    [d |-> WithKeyGen(d, r.kg),
     step |-> IF r.outcome = "Invalid" THEN StepFault(sender_id, "SyncKeyGenAck")
              ELSE EmptyStep]

\* DynamicHoneyBadger::handle_ack.  Without a key generation the branch at
\* lines 353-356 builds a fault and drops it.
handle_ack(d, sender_id, ack) ==
    IF ~d.key_gen_state.some THEN [d |-> d, step |-> EmptyStep]
    ELSE AckHandled(d, sender_id,
                    SkgHandleAck(d.key_gen_state.key_gen, sender_id, ack))

\* DynamicHoneyBadger::take_ready_key_gen
take_ready_key_gen(d) ==
    IF d.key_gen_state.some /\ KgsIsReady(d.key_gen_state)
    THEN [d |-> [d EXCEPT !.key_gen_state = NoKeyGen], kgs |-> d.key_gen_state]
    ELSE [d |-> d, kgs |-> NoKeyGen]

----------------------------------------------------------------------------
(* process_output, dynamic_honey_badger.rs:221-292 *)

\* Batch (batch.rs:8)
Batch(epoch, era, contributions, change, pub_keys, ni, params) ==
    [epoch |-> epoch, era |-> era, contributions |-> contributions,
     change |-> change, pub_keys |-> pub_keys, netinfo |-> ni, params |-> params]

\* Batch::public_eq
public_eq(a, b) ==
    /\ a.epoch = b.epoch /\ a.era = b.era
    /\ a.contributions = b.contributions
    /\ a.change = b.change
    /\ a.pub_keys = b.pub_keys
    /\ a.netinfo.pk_set = b.netinfo.pk_set
    /\ a.params = b.params

\* step.extend(..): acc, which holds at least [d, step], after a call that
\* returned r
Extended(acc, r) == [acc EXCEPT !.d = r.d, !.step = StepExtend(@, r.step)]

\* lines 240-251: one key generation message m of the contribution
\* proposed by id
ProcessKeyGenMessageAnyEra(d, id, m) ==
    IF ~verify_signature(d, m.sender, m.sig, m.kg_msg)
    THEN [d |-> d, step |-> StepFault(id, "InvalidKeyGenMessageSignature")]
    ELSE IF m.kg_msg.kind = "Part"
    THEN handle_part(d, m.sender, m.kg_msg)
    ELSE handle_ack(d, m.sender, m.kg_msg)
ProcessKeyGenMessage(d, id, m) ==
    IF m.era # d.era
    THEN [d |-> d, step |-> StepFault(id, "InvalidKeyGenMessageEra")]
    ELSE IF ~verify_signature(d, m.sender, m.sig, m.kg_msg)
    THEN [d |-> d, step |-> StepFault(id, "InvalidKeyGenMessageSignature")]
    ELSE IF m.kg_msg.kind = "Part"
    THEN handle_part(d, m.sender, m.kg_msg)
    ELSE handle_ack(d, m.sender, m.kg_msg)

RECURSIVE ProcessKeyGenMessages(_, _, _)
\* the loop at lines 239-252
ProcessKeyGenMessages(acc, id, msgs) ==
    IF msgs = <<>> THEN acc
    ELSE ProcessKeyGenMessages(
             Extended(acc, ProcessKeyGenMessage(acc.d, id, Head(msgs))),
             id, Tail(msgs))

\* lines 235-237: cv is what add_committed_votes returned;
\* acc is [d, step, contributions]
VotesCommittedKeepBuffer(acc, id, int_contrib, cv) ==
    [d |-> [acc.d EXCEPT !.vote_counter = cv.vc],
     step |-> [acc.step EXCEPT !.fault_log = @ \o cv.faults],
     contributions |-> MapInsert(acc.contributions, id, int_contrib.contrib)]
VotesCommittedFaultSkips(acc, id, int_contrib, cv) ==
    [d |-> [acc.d EXCEPT !.vote_counter = cv.vc,
                         !.key_gen_msg_buffer =
                             SeqWithout(@, int_contrib.key_gen_messages)],
     step |-> [acc.step EXCEPT !.fault_log = @ \o cv.faults],
     contributions |-> IF cv.faults = <<>>
                       THEN MapInsert(acc.contributions, id, int_contrib.contrib)
                       ELSE acc.contributions]
VotesCommitted(acc, id, int_contrib, cv) ==
    [d |-> [acc.d EXCEPT !.vote_counter = cv.vc,
                         !.key_gen_msg_buffer =
                             SeqWithout(@, int_contrib.key_gen_messages)],
     step |-> [acc.step EXCEPT !.fault_log = @ \o cv.faults],
     contributions |-> MapInsert(acc.contributions, id, int_contrib.contrib)]

\* the body of the loop at lines 231-253 for one (id, int_contrib)
ProcessContribution(acc, id, int_contrib) ==
    ProcessKeyGenMessages(
        VotesCommitted(acc, id, int_contrib,
            add_committed_votes(acc.d.vote_counter, id, int_contrib.votes)),
        id, int_contrib.key_gen_messages)

RECURSIVE ProcessContributions(_, _, _)
\* the loop at lines 231-253, in the order of the proposer ids
ProcessContributions(acc, hb_contributions, ids) ==
    IF ids = <<>> THEN acc
    ELSE ProcessContributions(
             ProcessContribution(acc, Head(ids), hb_contributions[Head(ids)]),
             hb_contributions, Tail(ids))

\* the epoch the engine gives a Honey Badger batch (line 228)
BatchEpochNoRebase(d, hb_batch) == hb_batch.epoch
BatchEpoch(d, hb_batch) == hb_batch.epoch + d.era

\* line 264: d is the engine after the restart
NodeChangeComplete(d) ==
    [d |-> d, step |-> EmptyStep, change |-> Complete(NodeChange(d.pub_keys))]

\* lines 258-263: d has the new pub_keys, gen is what generate() returned
RestartWithNewKeys(d, gen, batch_epoch) ==
    NodeChangeComplete(
        restart_honey_badger(d, batch_epoch + 1, d.honey_badger.params,
            NetworkInfoNew(our_id(d), gen.sk_share, gen.pk_set, d.pub_keys)))

\* lines 256-264: the key generation kg is ready
FinishKeyGenOldKeys(d, kg, batch_epoch) ==
    NodeChangeComplete(
        restart_honey_badger(d, batch_epoch + 1, d.honey_badger.params,
            NetworkInfoNew(our_id(d), SkgGenerate(kg).sk_share,
                           SkgGenerate(kg).pk_set, kg.pub_keys)))
FinishKeyGen(d, kg, batch_epoch) ==
    RestartWithNewKeys([d EXCEPT !.pub_keys = kg.pub_keys], SkgGenerate(kg),
                       batch_epoch)

\* lines 274-277: u is what update_key_gen returned
NodeChangeReportedComplete(u, change) ==
    [d |-> u.d, step |-> u.step, change |-> Complete(change)]
NodeChangeInProgress(u, change) ==
    [d |-> u.d, step |-> u.step, change |-> InProgress(change)]

\* lines 265-280: w is what compute_winner returned
WinnerDecidedSameEra(d, w, batch_epoch) ==
    IF ~w.some THEN [d |-> d, step |-> EmptyStep, change |-> NoChange]
    ELSE IF w.change.type = "NodeChange"
    THEN NodeChangeInProgress(
             update_key_gen(d, d.era, w.change.pub_keys), w.change)
    ELSE [d |-> update_encryption_schedule(d, batch_epoch + 1, w.change.schedule),
          step |-> EmptyStep, change |-> Complete(w.change)]
WinnerDecided(d, w, batch_epoch) ==
    IF ~w.some THEN [d |-> d, step |-> EmptyStep, change |-> NoChange]
    ELSE IF w.change.type = "NodeChange"
    THEN NodeChangeInProgress(
             update_key_gen(d, batch_epoch + 1, w.change.pub_keys), w.change)
    ELSE [d |-> update_encryption_schedule(d, batch_epoch + 1, w.change.schedule),
          step |-> EmptyStep, change |-> Complete(w.change)]

\* lines 255-280: t is what take_ready_key_gen returned
KeyGenTakenVotesFirst(t, batch_epoch) ==
    IF compute_winner(t.d.vote_counter).some \/ ~t.kgs.some
    THEN WinnerDecided([t.d EXCEPT !.key_gen_state =
                            IF t.kgs.some THEN t.kgs ELSE @],
                       compute_winner(t.d.vote_counter), batch_epoch)
    ELSE FinishKeyGen(t.d, t.kgs.key_gen, batch_epoch)
KeyGenTaken(t, batch_epoch) ==
    IF t.kgs.some THEN FinishKeyGen(t.d, t.kgs.key_gen, batch_epoch)
    ELSE WinnerDecided(t.d, compute_winner(t.d.vote_counter), batch_epoch)

\* lines 255-280: the change this batch reports and its effect on the
\* engine; yields [d, step, change]
DecideChange(d, batch_epoch) == KeyGenTaken(take_ready_key_gen(d), batch_epoch)

\* lines 281-289: c is the state after the loop over the contributions, ch
\* what DecideChange returned
PushBatchNewEra(batch_era, batch_epoch, c, ch) ==
    [d |-> ch.d,
     step |-> [StepExtend(c.step, ch.step) EXCEPT !.output =
                  Append(@, Batch(batch_epoch, ch.d.era, c.contributions, ch.change,
                                  ch.d.pub_keys, netinfo(ch.d),
                                  ch.d.honey_badger.params))]]
PushBatch(batch_era, batch_epoch, c, ch) ==
    [d |-> ch.d,
     step |-> [StepExtend(c.step, ch.step) EXCEPT !.output =
                  Append(@, Batch(batch_epoch, batch_era, c.contributions, ch.change,
                                  ch.d.pub_keys, netinfo(ch.d),
                                  ch.d.honey_badger.params))]]

\* lines 255-289
ContributionsProcessed(batch_era, batch_epoch, c) ==
    PushBatch(batch_era, batch_epoch, c, DecideChange(c.d, batch_epoch))

\* the body of the loop at lines 226-290 for one Honey Badger batch;
\* acc is [d, step]
ProcessBatch(acc, hb_batch) ==
    ContributionsProcessed(acc.d.era, BatchEpoch(acc.d, hb_batch),
        ProcessContributions(
            [d |-> acc.d, step |-> acc.step, contributions |-> EmptyMap],
            hb_batch.contributions, SetToSeq(DOMAIN hb_batch.contributions)))

RECURSIVE ProcessBatches(_, _)
\* the loop at lines 226-290
ProcessBatches(acc, hb_batches) ==
    IF hb_batches = <<>> THEN acc
    ELSE ProcessBatches(ProcessBatch(acc, Head(hb_batches)), Tail(hb_batches))

\* DynamicHoneyBadger::process_output: hb_step is the step Honey Badger
\* returned; its messages are wrapped with the era the engine has on entry
process_output(d, hb_step) ==
    ProcessBatches(
        [d |-> d,
         step |-> [output |-> <<>>,
                   fault_log |-> [i \in 1..Len(hb_step.fault_log) |->
                       [node |-> hb_step.fault_log[i], kind |-> "HbFault"]],
                   messages |-> [i \in 1..Len(hb_step.messages) |->
                       [target |-> "All",
                        message |-> MsgHoneyBadger(d.era, hb_step.messages[i])]]]],
        hb_step.output)

----------------------------------------------------------------------------
(* The public operations of the engine.  Each yields [d, step, err]; the   *)
(* contents argument is what the wrapped Honey Badger outputs in the call. *)

Ok(r) == [d |-> r.d, step |-> r.step, err |-> "None"]

\* what propose hands to Honey Badger (lines 111-115)
OurContrib(d, contrib) ==
    InternalContrib(contrib,
        SelectSeq(d.key_gen_msg_buffer, LAMBDA m : m.era = d.era),
        pending_votes(d.vote_counter))

\* the engine when a Honey Badger call that took it to hb and completed
\* the epochs of contents has returned, before process_output
HbReturned(d, hb, contents) == [d EXCEPT !.honey_badger = HbAdvance(hb, contents)]

\* DynamicHoneyBadger::propose
propose(d, contrib, contents) ==
    Ok(process_output(
          HbReturned(d, HbPropose(d.honey_badger, OurContrib(d, contrib)), contents),
          HbStep(d.honey_badger, contents)))

\* vote_for, lines 126-127: r is what sing_vote_for returned
VoteSigned(d, r) ==
    Ok([d |-> [d EXCEPT !.vote_counter = r.vc],
        step |-> StepBroadcast(MsgSignedVote(r.sv))])

\* DynamicHoneyBadger::vote_for
VoteForAlways(d, change) == VoteSigned(d, sing_vote_for(d.vote_counter, change))
vote_for(d, change) ==
    IF ~is_validator(netinfo(d)) THEN Ok([d |-> d, step |-> EmptyStep])
    ELSE VoteSigned(d, sing_vote_for(d.vote_counter, change))

\* DynamicHoneyBadger::vote_to_add: a vote for our key map with node_id in it
vote_to_add(d, node_id) == vote_for(d, NodeChange(d.pub_keys \cup {node_id}))

\* DynamicHoneyBadger::vote_to_remove: a vote for our key map without node_id
vote_to_remove(d, node_id) == vote_for(d, NodeChange(d.pub_keys \ {node_id}))

\* DynamicHoneyBadger::has_input
has_input(d) == d.honey_badger.has_input

\* DynamicHoneyBadger::should_propose.  The branches at lines 175-177,
\* 178-180 and 182-184 evaluate `false`, `true` and `true` and lack their
\* `return`: the values are dropped and the last expression is the result.
should_propose(d) == d.key_gen_msg_buffer # <<>>

\* DynamicHoneyBadger::handle_honey_badger_message.  The check of the
\* sender at lines 193-195 lacks its `return`: the error value is dropped
\* and the message is handed to Honey Badger.
handle_honey_badger_message(d, sender_id, hb_msg, contents) ==
    Ok(process_output(HbReturned(d, d.honey_badger, contents),
                      HbStep(d.honey_badger, contents)))

\* handle_key_gen_message, lines 212-218: c is what count_messages returned
MessagesCounted(d, sender_id, kg_msg, sig, c) ==
    Ok([d |-> [d EXCEPT !.key_gen_state = c.kgs,
                        !.key_gen_msg_buffer =
                            Append(@, SignedKeyGenMsg(d.era, sender_id, kg_msg, sig))],
        step |-> EmptyStep])

\* DynamicHoneyBadger::handle_key_gen_message.  The exits at lines 201-204
\* and 212-215 lack their `return`: the faults are dropped.
handle_key_gen_message(d, sender_id, kg_msg, sig) ==
    IF ~d.key_gen_state.some
    THEN Ok([d |-> d, step |-> StepFault(sender_id, "UnexpectedKeyGenMessage")])
    ELSE MessagesCounted(d, sender_id, kg_msg, sig,
                         KgsCountMessages(d.key_gen_state, sender_id))

\* handle_message, line 153: r is what add_pending_vote returned
PendingVoteAdded(d, r) ==
    Ok([d |-> [d EXCEPT !.vote_counter = r.vc],
        step |-> [EmptyStep EXCEPT !.fault_log = r.faults]])

HandleMessageOldEraProcessed(d, sender_id, message, contents) ==
    IF MessageEra(message) > d.era
    THEN Ok([d |-> d, step |-> StepFault(sender_id, "UnexpectedDhbMessageEra")])
    ELSE IF message.type = "HoneyBadger"
    THEN handle_honey_badger_message(d, sender_id, message.hb_msg, contents)
    ELSE IF message.type = "KeyGen"
    THEN handle_key_gen_message(d, sender_id, message.kg_msg, message.sig)
    ELSE PendingVoteAdded(d, add_pending_vote(d.vote_counter, sender_id, message.sv))
\* DynamicHoneyBadger::handle_message
handle_message(d, sender_id, message, contents) ==
    IF MessageEra(message) > d.era
    THEN Ok([d |-> d, step |-> StepFault(sender_id, "UnexpectedDhbMessageEra")])
    ELSE IF MessageEra(message) < d.era
    THEN Ok([d |-> d, step |-> EmptyStep])
    ELSE IF message.type = "HoneyBadger"
    THEN handle_honey_badger_message(d, sender_id, message.hb_msg, contents)
    ELSE IF message.type = "KeyGen"
    THEN handle_key_gen_message(d, sender_id, message.kg_msg, message.sig)
    ELSE PendingVoteAdded(d, add_pending_vote(d.vote_counter, sender_id, message.sv))

\* Batch::join_plan
join_plan(b) ==
    IF b.change = NoChange THEN [some |-> FALSE]
    ELSE [some |-> TRUE,
          plan |-> [era |-> b.epoch + 1, change |-> b.change, pub_keys |-> b.pub_keys,
                    pub_key_set |-> b.netinfo.pk_set, params |-> b.params]]

\* new_joining, lines 83-96: the plan reports a completed change that its
\* keys or parameters do not show
InvalidJoinPlanInProgressToo(plan) ==
    /\ plan.change.state # "None"
    /\ IF plan.change.change.type = "EncryptionSchedule"
       THEN plan.change.change.schedule # plan.params.encryption_schedule
       ELSE plan.change.change.pub_keys # plan.pub_keys
InvalidJoinPlan(plan) ==
    /\ plan.change.state = "Complete"
    /\ IF plan.change.change.type = "EncryptionSchedule"
       THEN plan.change.change.schedule # plan.params.encryption_schedule
       ELSE plan.change.change.pub_keys # plan.pub_keys

\* new_joining, lines 99-103: d is the engine DynamicHoneyBadger::new built
JoinedIdle(d, plan) == Ok([d |-> d, step |-> EmptyStep])
Joined(d, plan) ==
    IF plan.change.state = "InProgress" /\ plan.change.change.type = "NodeChange"
    THEN Ok(update_key_gen(d, plan.era, plan.change.change.pub_keys))
    ELSE Ok([d |-> d, step |-> EmptyStep])

\* DynamicHoneyBadger::new_joining
new_joining(id, secret_key, plan) ==
    IF InvalidJoinPlan(plan)
    THEN [step |-> EmptyStep, err |-> "InvalidJoinPlan"]
    ELSE Joined(DynamicHoneyBadgerNew(secret_key, plan.pub_keys,
                    NetworkInfoNew(id, FALSE, plan.pub_key_set, plan.pub_keys),
                    plan.params, plan.era, 0),
                plan)

----------------------------------------------------------------------------
(* History kept for the properties: what each emitted batch did *)

\* the signed votes st, with sv added if add_committed_vote stored it
VoteStored(vc, st, sv, r) ==
    [vc |-> r.vc,
     stored |-> IF r.vc.committed # vc.committed THEN MapInsert(st, sv.voter, sv)
                ELSE st]

RECURSIVE StoreVotes(_, _, _)
\* follows add_committed_votes and remembers the signed vote behind every
\* vote it stores; acc is [vc, stored]
StoreVotes(acc, proposer_id, svs) ==
    IF svs = <<>> THEN acc
    ELSE StoreVotes(
             VoteStored(acc.vc, acc.stored, Head(svs),
                        add_committed_vote(acc.vc, proposer_id, Head(svs))),
             proposer_id, Tail(svs))

RECURSIVE StoreContributions(_, _, _)
StoreContributions(acc, hb_contributions, ids) ==
    IF ids = <<>> THEN acc
    ELSE StoreContributions(
             StoreVotes(acc, Head(ids), hb_contributions[Head(ids)].votes),
             hb_contributions, Tail(ids))

\* the voters whose committed vote names change c, is of the counter's era
\* and came from a vote signed by a voter of the counter's key map
Supporters(vc, st, c) ==
    {v \in DOMAIN vc.committed :
        /\ vc.committed[v].change = c
        /\ vc.committed[v].era = vc.era
        /\ v \in vc.pub_keys
        /\ v \in DOMAIN st
        /\ st[v].vote = vc.committed[v]
        /\ st[v].voter = v
        /\ Verify(v, st[v].sig, st[v].vote)}

\* the changes that f + 1 or more such voters name
Supported(vc, st) ==
    {c \in {vc.committed[v].change : v \in DOMAIN vc.committed} :
        Cardinality(Supporters(vc, st, c)) >= max_faulty(Cardinality(vc.pub_keys)) + 1}

\* the signed votes that are still behind the committed store
StillStored(st, committed) ==
    [v \in {x \in DOMAIN st : x \in DOMAIN committed /\ committed[x] = st[x].vote}
        |-> st[v]]

\* acc is [d, stored, entries]; sc the votes stored while the batch's
\* contributions were committed, pb what ProcessBatch returned
BatchTraced(acc, hb_batch, sc, pb) ==
    [d |-> pb.d,
     stored |-> StillStored(sc.stored, pb.d.vote_counter.committed),
     entries |-> Append(acc.entries,
        [epoch |-> pb.step.output[1].epoch,
         era |-> pb.step.output[1].era,
         change |-> pb.step.output[1].change,
         era_before |-> acc.d.era,
         era_after |-> pb.d.era,
         hb_epoch |-> hb_batch.epoch,
         supported |-> Supported(sc.vc, sc.stored)])]

TraceBatch(acc, hb_batch) ==
    BatchTraced(acc, hb_batch,
        StoreContributions([vc |-> acc.d.vote_counter, stored |-> acc.stored],
            hb_batch.contributions, SetToSeq(DOMAIN hb_batch.contributions)),
        ProcessBatch([d |-> acc.d, step |-> EmptyStep], hb_batch))

RECURSIVE Trace(_, _)
\* replays process_output batch by batch; acc is [d, stored, entries], one
\* entry per emitted batch
Trace(acc, hb_batches) ==
    IF hb_batches = <<>> THEN acc
    ELSE Trace(TraceBatch(acc, Head(hb_batches)), Tail(hb_batches))

----------------------------------------------------------------------------
(* The network the engine runs in, and what its environment may send *)

\* our node, the validators of era 0, a node that joins later, and a
\* validator that signs what others are said to have signed
Us == 1
Validators0 == {1, 2, 3, 4}
JoinerId == 5
Forger == 4
\* the validators whose votes and proposals the environment delivers
P2 == 2
P3 == 3

\* the key map of the node change voted on
Ka == {1}
EnvChanges == {NodeChange(Ka), EncryptionSchedule("Never")}

PkSet0 == [keys |-> Validators0, threshold |-> max_faulty(Cardinality(Validators0))]

ValidVote(v, c, era, n) ==
    SignedVote(Vote(c, era, n), v, Sign(v, Vote(c, era, n)))
ForgedVote(v, c, era, n) ==
    SignedVote(Vote(c, era, n), v, Sign(Forger, Vote(c, era, n)))

SignedKg(era, s, kg) == SignedKeyGenMsg(era, s, kg, Sign(s, kg))

PlainContrib == InternalContrib("tx", <<>>, <<>>)

\* votes carried by the contributions of a committed batch
BatchVotes(d) ==
    {ValidVote(v, c, d.era, 0) : v \in {P2, P3}, c \in EnvChanges}
    \cup {ValidVote(P2, EncryptionSchedule("Never"), d.era, n) : n \in 0..MaxNum}
    \cup {ForgedVote(P3, EncryptionSchedule("Never"), d.era, 0),
          ValidVote(P3, EncryptionSchedule("Never"), d.era + 1, 0)}

\* key generation messages carried by the contributions of a committed batch
BatchKeyGens(d) ==
    LET K == IF d.key_gen_state.some THEN d.key_gen_state.key_gen.pub_keys ELSE Ka
    IN  {SignedKg(d.era, s, Part(TRUE)) : s \in K}
        \cup {SignedKg(d.era, s, Ack(p, TRUE)) : s \in K, p \in K}
        \cup {SignedKg(d.era + 1, Us, Part(TRUE)),
              SignedKeyGenMsg(d.era, Us, Part(TRUE), Sign(Forger, Part(TRUE))),
              SignedKg(d.era, Us, Part(FALSE))}

\* our own entry in a batch: what we proposed, if we did
OwnContents(d) ==
    IF d.honey_badger.has_input
    THEN {[p \in {our_id(d)} |-> d.honey_badger.input]} ELSE {}

\* batches in which P2 and P3 both propose: votes for the same change, or
\* a valid and a forged vote for it
VoteContents(d) ==
    IF {P2, P3} \subseteq netinfo(d).all_ids
    THEN {[p \in {P2, P3} |->
             InternalContrib("tx", <<>>, <<ValidVote(p, c, d.era, 0)>>)] :
                c \in EnvChanges}
         \cup {[p \in {P2, P3} |->
             InternalContrib(IF p = P2 THEN "tx" ELSE "tx2", <<>>,
                 << IF p = P2
                    THEN ValidVote(p, EncryptionSchedule("Never"), d.era, 0)
                    ELSE ForgedVote(p, EncryptionSchedule("Never"), d.era, 0) >>)]}
    ELSE {}

\* contribution maps of one Honey Badger batch: proposers are validators of
\* the Honey Badger instance; our own entry is what we proposed
BatchContents(d) ==
    OwnContents(d) \cup VoteContents(d)
    \cup (IF P2 \in netinfo(d).all_ids
          THEN {[p \in {P2} |-> PlainContrib]}
               \cup {[p \in {P2} |-> InternalContrib("tx", <<>>, <<sv>>)] :
                       sv \in BatchVotes(d)}
               \cup {[p \in {P2} |-> InternalContrib("tx", <<kg>>, <<>>)] :
                       kg \in BatchKeyGens(d)}
          ELSE {})

\* what one Honey Badger call may output: nothing, one batch, or two
\* batches the second of which carries a plain contribution
HbOutputs(d) ==
    {<<>>} \cup {<<b>> : b \in BatchContents(d)}
    \cup {<<b, [p \in {Min(netinfo(d).all_ids)} |-> PlainContrib]>> :
            b \in OwnContents(d) \cup VoteContents(d)}

\* join plans a joining node may be given: those of batches that report a
\* change in a network of Validators0
JoinPlans ==
    {[era |-> 1, change |-> ch, pub_keys |-> Validators0, pub_key_set |-> PkSet0,
      params |-> Params("Always")] :
        ch \in {InProgress(NodeChange(Ka))}}
    \cup {[era |-> 1, change |-> Complete(EncryptionSchedule("Never")),
           pub_keys |-> Validators0, pub_key_set |-> PkSet0,
           params |-> Params("Never")]}

----------------------------------------------------------------------------
(* The stand-alone vote counter of the tests in votes.rs *)

\* tests::setup(node_num, era): the counter of node 1 among four nodes
TestNodes == {1, 2, 3, 4}
TestEra == 5
TestCounter == VoteCounterNew(Us, Us, TestNodes, TestEra)

----------------------------------------------------------------------------
(* The block driver of the kernel (block.rs).  A queue is modelled by the  *)
(* requests the driver made available and the device has not used yet, and *)
(* by the requests the device used and the driver has not acknowledged     *)
(* yet, each request by the pid of its watcher.                            *)

\* the processes that make system calls; pid 0 is no watcher (line 255)
Pids == {1, 2}

\* device numbers: a writable device, a read-only device, an empty slot
BlockDevs == {1, 2, 3}

\* sizes of a transfer: a sector and a size that is no multiple of 512
BlockSizes == {512, 513}

\* BLOCK_DEVICES after setup_block_device of devices 1 and 2, the process
\* table and the kernel processes waiting to be run
Booted ==
    [procs |-> [pid \in Pids |-> "Running"],
     kprocs |-> <<>>,
     devices |-> [dev \in BlockDevs |->
                    [some |-> dev # 3, read_only |-> dev = 2,
                     avail |-> <<>>, used |-> <<>>]]]

\* block::block_op; yields the kernel and the result
block_op(b, dev, size, write, watcher) ==
    IF ~b.devices[dev].some THEN [b |-> b, result |-> "BlockDeviceNotFound"]
    ELSE IF b.devices[dev].read_only /\ write THEN [b |-> b, result |-> "ReadOnly"]
    ELSE IF size % 512 # 0 THEN [b |-> b, result |-> "InvalidArgument"]
    ELSE [b |-> [b EXCEPT !.devices[dev].avail = Append(@, watcher)],
          result |-> "Ok"]

\* the loop of block::pending over the used requests: their watchers are
\* set running
RECURSIVE AckUsed(_, _)
AckUsed(procs, used) ==
    IF used = <<>> THEN procs
    ELSE AckUsed(IF Head(used) > 0
                 THEN [procs EXCEPT ![Head(used)] = "Running"] ELSE procs,
                 Tail(used))

\* block::pending for the device dev
pending(b, dev) ==
    [b EXCEPT !.procs = AckUsed(@, b.devices[dev].used),
              !.devices[dev].used = <<>>]

\* block::handle_interrupt
handle_interrupt(b, dev) == IF b.devices[dev].some THEN pending(b, dev) ELSE b

\* block::read_proc and block::write_proc: the result of block_op is dropped
read_proc(b, args) == block_op(b, args.dev, args.size, FALSE, args.pid).b
write_proc(b, args) == block_op(b, args.dev, args.size, TRUE, args.pid).b

\* block::process_read and block::process_write: the process waits and a
\* kernel process is added that will run read_proc or write_proc
process_read(b, pid, dev, size) ==
    [b EXCEPT !.procs[pid] = "Waiting",
              !.kprocs = Append(@, [write |-> FALSE, pid |-> pid, dev |-> dev,
                                    size |-> size])]
process_write(b, pid, dev, size) ==
    [b EXCEPT !.procs[pid] = "Waiting",
              !.kprocs = Append(@, [write |-> TRUE, pid |-> pid, dev |-> dev,
                                    size |-> size])]

----------------------------------------------------------------------------
(* Specification of one engine *)

BuiltEngine ==
    DynamicHoneyBadgerNew(Us, Validators0,
        NetworkInfoNew(Us, TRUE, PkSet0, Validators0), Params("Always"), 0, 0)

\* the engine of validator P2 in the same network
PeerEngine ==
    DynamicHoneyBadgerNew(P2, Validators0,
        NetworkInfoNew(P2, TRUE, PkSet0, Validators0), Params("Always"), 0, 0)

\* the batches the two engines have emitted
NoOutputs == [a |-> <<>>, b |-> <<>>]

Init ==
    /\ \/ /\ dhb = BuiltEngine
          /\ joiner = FALSE
          /\ last = [op |-> "new"]
       \/ \E plan \in JoinPlans :
             LET r == new_joining(JoinerId, JoinerId, plan)
             IN  /\ r.err = "None"
                 /\ dhb = r.d
                 /\ joiner = TRUE
                 /\ last = [op |-> "new_joining", plan |-> plan, step |-> r.step]
    /\ hist = <<>>
    /\ stored = EmptyMap
    /\ ct = TestCounter
    /\ peer = PeerEngine
    /\ feed = EmptyMap
    /\ outs = NoOutputs
    /\ sent = {}
    /\ blk = Booted

\* the effect of a call that returned r; t is the trace of the batches
\* it emitted
Recorded(r, t, call) ==
    /\ dhb' = r.d
    /\ hist' = hist \o t.entries
    /\ stored' = t.stored
    /\ last' = [call EXCEPT !.step = r.step, !.err = r.err]
    /\ UNCHANGED <<blk, joiner, ct, peer, feed, outs, sent>>

\* d_in is the engine on entry of process_output, hb_batches its input
Record(r, d_in, hb_batches, call) ==
    Recorded(r, Trace([d |-> d_in, stored |-> stored, entries |-> <<>>], hb_batches),
             call)

Call(op) == [op |-> op, step |-> EmptyStep, err |-> "None"]

MessageCall(sender_id, message) ==
    [op |-> "handle_message", step |-> EmptyStep, err |-> "None",
     sender_id |-> sender_id, message |-> message]

\* propose; Honey Badger outputs nothing yet, or the batch of our
\* contribution alone
ProposeWith(hb1) ==
    \E contents \in {<<>>} \cup
            {<<[p \in {our_id(dhb)} |-> hb1.input]>> : x \in {y \in {1} : hb1.has_input}} :
        /\ Len(hist) + Len(contents) <= MaxBatches
        /\ Record(propose(dhb, "tx", contents),
                  HbReturned(dhb, hb1, contents),
                  HbStep(dhb.honey_badger, contents).output,
                  Call("propose"))

Propose == ProposeWith(HbPropose(dhb.honey_badger, OurContrib(dhb, "tx")))

VoteFor ==
    \E change \in EnvChanges :
        /\ Us \in DOMAIN dhb.vote_counter.pending
              => dhb.vote_counter.pending[Us].vote.num < MaxNum
        /\ Record(vote_for(dhb, change), dhb, <<>>, Call("vote_for"))

\* handle_message with a Honey Badger message of the current era from a
\* validator, and what Honey Badger outputs on it
HbMessage ==
    \E contents \in HbOutputs(dhb) :
        /\ Len(hist) + Len(contents) <= MaxBatches
        /\ Record(handle_message(dhb, P2, MsgHoneyBadger(dhb.era, "hb"), contents),
                  HbReturned(dhb, dhb.honey_badger, contents),
                  HbStep(dhb.honey_badger, contents).output,
                  MessageCall(P2, MsgHoneyBadger(dhb.era, "hb")))

Next == Propose \/ VoteFor \/ HbMessage

Spec == Init /\ [][Next]_vars

----------------------------------------------------------------------------
(* Specification of one engine and the messages it is handed: of the era  *)
(* before its own, of its own and of the next                              *)

MaxBuffer == 1
MaxMsgBatches == 1

EnvEras(d) == {e \in {d.era - 1, d.era, d.era + 1} : e >= 0}

\* the senders: a validator and a node that is none
EnvSenders == {P2, JoinerId}

EnvMessages(d, sender_id) ==
    {MsgHoneyBadger(e, "hb") : e \in EnvEras(d)}
    \cup {MsgKeyGen(e, Part(TRUE), Sign(sender_id, Part(TRUE))) : e \in EnvEras(d)}
    \cup {MsgKeyGen(d.era, Part(TRUE), Sign(Forger, Part(TRUE))) : x \in {sender_id} \cap {P2}}
    \cup {MsgSignedVote(ValidVote(P2, EncryptionSchedule("Never"), e, n)) :
            e \in EnvEras(d), n \in 0..MaxNum}
    \cup {MsgSignedVote(ValidVote(P2, NodeChange(Ka), e, 0)) : e \in EnvEras(d)}
    \cup {MsgSignedVote(ForgedVote(P3, EncryptionSchedule("Never"), e, 0)) :
            e \in EnvEras(d)}

\* what Honey Badger outputs on a message: nothing unless the message is a
\* Honey Badger message that handle_message passes on; then nothing, or one
\* batch in which P2 and P3 propose votes for the same change
MsgOutputs(d, message) ==
    IF message.type = "HoneyBadger" /\ message.era = d.era
          /\ {P2, P3} \subseteq netinfo(d).all_ids
    THEN {<<>>} \cup
         {<<[p \in {P2, P3} |->
                InternalContrib("tx", <<>>, <<ValidVote(p, c, d.era, 0)>>)]>> :
            c \in EnvChanges}
    ELSE {<<>>}

HandleMessage ==
    \E sender_id \in EnvSenders :
      \E message \in EnvMessages(dhb, sender_id) :
        \E contents \in MsgOutputs(dhb, message) :
            /\ Len(hist) + Len(contents) <= MaxMsgBatches
            /\ (message.type = "KeyGen" /\ message.era = dhb.era)
                  => Len(dhb.key_gen_msg_buffer) < MaxBuffer
            /\ Record(handle_message(dhb, sender_id, message, contents),
                      HbReturned(dhb, dhb.honey_badger, contents),
                      HbStep(dhb.honey_badger, contents).output,
                      MessageCall(sender_id, message))

NextMsg == HandleMessage

SpecMsg == Init /\ [][NextMsg]_vars

----------------------------------------------------------------------------
(* Specification of one engine that is handed the first batches of Honey   *)
(* Badger and nothing else                                                 *)

MaxHbBatches == 2

NextBatch == HbMessage /\ Len(hist') <= MaxHbBatches

SpecBatch == Init /\ [][NextBatch]_vars

----------------------------------------------------------------------------
(* Specification of one engine, the node changes that win and the key      *)
(* generation messages it is handed while a key generation runs            *)

MaxKgMsgs == 4
MaxKgBatches == 2

\* the key map of a second node change: the validators and the joining node
Kb == Validators0 \cup {JoinerId}

\* a Part of the current era signed by the sender, and one signed by another
KgMessages(d, sender_id) ==
    {MsgKeyGen(d.era, Part(TRUE), Sign(s, Part(TRUE))) : s \in {sender_id, Forger}}

\* a batch in which P2 and P3 propose votes for NodeChange(K)
KgContents(d, K) ==
    <<[p \in {P2, P3} |->
         InternalContrib("tx", <<>>, <<ValidVote(p, NodeChange(K), d.era, 0)>>)]>>

\* handle_message with a key generation message
KgMessage ==
    /\ Len(dhb.key_gen_msg_buffer) < MaxKgMsgs
    /\ \E sender_id \in EnvSenders :
         \E message \in KgMessages(dhb, sender_id) :
            Record(handle_message(dhb, sender_id, message, <<>>),
                   HbReturned(dhb, dhb.honey_badger, <<>>), <<>>,
                   MessageCall(sender_id, message))

\* handle_message with a Honey Badger message on which Honey Badger outputs
\* a batch whose votes make a node change win
KgBatch ==
    /\ Len(hist) < MaxKgBatches
    /\ {P2, P3} \subseteq netinfo(dhb).all_ids
    /\ \E K \in {Ka, Kb} :
          Record(handle_message(dhb, P2, MsgHoneyBadger(dhb.era, "hb"),
                                KgContents(dhb, K)),
                 HbReturned(dhb, dhb.honey_badger, KgContents(dhb, K)),
                 HbStep(dhb.honey_badger, KgContents(dhb, K)).output,
                 MessageCall(P2, MsgHoneyBadger(dhb.era, "hb")))

NextKg == KgMessage \/ KgBatch

SpecKg == Init /\ [][NextKg]_vars

----------------------------------------------------------------------------
(* Specification of one engine and a key generation for two nodes, whose   *)
(* messages come in the batches, with or without votes that win            *)

MaxDkgBatches == 5

\* the key map of a node change to two nodes
Kc == {Us, P2}

\* no vote, or the votes for a change
DkgVotes == {[some |-> FALSE]} \cup {[some |-> TRUE, change |-> c] : c \in EnvChanges}

\* a batch in which P2 proposes the key generation message kg, and P2 and
\* P3 propose their votes v, if any
DkgContents(d, kg, v) ==
    <<[p \in {P2, P3} |->
         InternalContrib("tx",
             IF p = P2 THEN <<kg>> ELSE <<>>,
             IF v.some THEN <<ValidVote(p, v.change, d.era, 0)>> ELSE <<>>)]>>

\* the batches Honey Badger may output while a key generation runs
DkgBatches(d) == {DkgContents(d, kg, v) : kg \in BatchKeyGens(d), v \in DkgVotes}

\* handle_message with a Honey Badger message on which Honey Badger outputs
\* the batch contents
DkgHandled(contents) ==
    Record(handle_message(dhb, P2, MsgHoneyBadger(dhb.era, "hb"), contents),
           HbReturned(dhb, dhb.honey_badger, contents),
           HbStep(dhb.honey_badger, contents).output,
           MessageCall(P2, MsgHoneyBadger(dhb.era, "hb")))

\* the batch whose votes start the key generation for Kc
DkgStart ==
    /\ Len(hist) < MaxDkgBatches
    /\ ~dhb.key_gen_state.some
    /\ {P2, P3} \subseteq netinfo(dhb).all_ids
    /\ DkgHandled(KgContents(dhb, Kc))

\* a batch that carries a message of the key generation
DkgCarried ==
    /\ Len(hist) < MaxDkgBatches
    /\ dhb.key_gen_state.some
    /\ {P2, P3} \subseteq netinfo(dhb).all_ids
    /\ \E contents \in DkgBatches(dhb) : DkgHandled(contents)

NextDkg == DkgStart \/ DkgCarried

SpecDkg == Init /\ [][NextDkg]_vars

----------------------------------------------------------------------------
(* Specification of two engines of one network.  Honey Badger is their     *)
(* common source of batches: feed[s] is the sequence of batches the Honey  *)
(* Badger instance of session s has committed so far, the same for both    *)
(* engines; each engine is handed them in steps of one batch or several.   *)

MaxFeed == 4
MaxGroup == 2

\* contribution maps the Honey Badger instance of session s may commit
PairContents(s) ==
    {[p \in {P2} |-> PlainContrib], [p \in {P3} |-> PlainContrib],
     [p \in {P2, P3} |->
        InternalContrib("tx", <<>>, <<ValidVote(p, EncryptionSchedule("Never"), s, 0)>>)]}

SessionFeed(s) == IF s \in DOMAIN feed THEN feed[s] ELSE <<>>

FeedLen == IF DOMAIN feed = {} THEN 0
           ELSE Len(feed[Min(DOMAIN feed)])
                + Cardinality({<<s, i>> \in (DOMAIN feed) \X (1..MaxFeed) :
                                  s # Min(DOMAIN feed) /\ i <= Len(feed[s])})

InitPair ==
    /\ dhb = BuiltEngine
    /\ peer = PeerEngine
    /\ feed = EmptyMap
    /\ outs = NoOutputs
    /\ sent = {}
    /\ blk = Booted
    /\ joiner = FALSE
    /\ hist = <<>>
    /\ stored = EmptyMap
    /\ ct = TestCounter
    /\ last = [op |-> "new"]

\* engine d is handed the next n batches of its Honey Badger instance, of
\* which committed is what the instance has committed, extended if need be
PairHandled(d, n, committed) ==
    handle_message(d, P3, MsgHoneyBadger(d.era, "hb"),
        SubSeq(committed, d.honey_badger.epoch + 1, d.honey_badger.epoch + n))

\* the committed batches of the session of d, with those Honey Badger
\* commits to make up a step of n
PairCommits(d, n) ==
    LET have == SessionFeed(d.era)
        more == IF d.honey_badger.epoch + n > Len(have)
                THEN d.honey_badger.epoch + n - Len(have) ELSE 0
    IN  {have \o ext : ext \in [1..more -> PairContents(d.era)]}

StepOfA ==
    \E n \in 1..MaxGroup : \E committed \in PairCommits(dhb, n) :
        /\ FeedLen + Len(committed) - Len(SessionFeed(dhb.era)) <= MaxFeed
        /\ dhb' = PairHandled(dhb, n, committed).d
        /\ outs' = [outs EXCEPT !.a = @ \o PairHandled(dhb, n, committed).step.output]
        /\ feed' = MapInsert(feed, dhb.era, committed)
        /\ UNCHANGED <<blk, peer, joiner, hist, stored, ct, last, sent>>

StepOfB ==
    \E n \in 1..MaxGroup : \E committed \in PairCommits(peer, n) :
        /\ FeedLen + Len(committed) - Len(SessionFeed(peer.era)) <= MaxFeed
        /\ peer' = PairHandled(peer, n, committed).d
        /\ outs' = [outs EXCEPT !.b = @ \o PairHandled(peer, n, committed).step.output]
        /\ feed' = MapInsert(feed, peer.era, committed)
        /\ UNCHANGED <<blk, dhb, joiner, hist, stored, ct, last, sent>>

NextPair == StepOfA \/ StepOfB

SpecPair == InitPair /\ [][NextPair]_vars

----------------------------------------------------------------------------
(* Specification of joining: new_joining is applied to join plans, those   *)
(* of batches and others                                                   *)

MaxJoinEra == 2

\* the key maps of the plans handed to node id: one without it, one with it
EnvJoinKeys(id) == {Ka, Validators0 \cup {id}}

\* the change states the plans handed to node id report
EnvJoinChanges(id) ==
    {NoChange}
    \cup {InProgress(NodeChange(k)) : k \in EnvJoinKeys(id)}
    \cup {Complete(NodeChange(k)) : k \in EnvJoinKeys(id)}
    \cup {InProgress(EncryptionSchedule(x)) : x \in {"Always", "Never"}}
    \cup {Complete(EncryptionSchedule(x)) : x \in {"Always", "Never"}}

\* the join plans node id may be handed
EnvJoinPlans(id) ==
    {[era |-> e, change |-> ch, pub_keys |-> pks,
      pub_key_set |-> [keys |-> pks, threshold |-> max_faulty(Cardinality(pks))],
      params |-> Params(x)] :
        e \in 0..MaxJoinEra, ch \in EnvJoinChanges(id),
        pks \in {Validators0} \cup EnvJoinKeys(id), x \in {"Always", "Never"}}

\* new_joining returned r: an engine and its first step, or an error
JoinReturned(r, plan) ==
    /\ dhb' = IF r.err = "None" THEN r.d ELSE dhb
    /\ joiner' = (r.err = "None")
    /\ last' = [op |-> "new_joining", plan |-> plan, step |-> r.step, err |-> r.err]

\* a node is started from a join plan; nothing else in the network moves
JoinWith ==
    /\ UNCHANGED <<blk, hist, stored, ct, peer, feed, outs, sent>>
    /\ \E id \in {JoinerId} : \E plan \in EnvJoinPlans(id) :
          JoinReturned(new_joining(id, id, plan), plan)

NextJoin == JoinWith

SpecJoin == InitPair /\ [][NextJoin]_vars

----------------------------------------------------------------------------
(* Specification of a voter and a second engine.  Validator P2 (peer)      *)
(* votes to add the joining node and then for the encryption schedule while *)
(* nothing is committed; its votes reach our engine (dhb) in any order;    *)
(* both engines propose; Honey Badger commits batches of session 0 (feed)  *)
(* from the proposals made for the epoch, and each engine is handed the    *)
(* committed batches one by one.                                           *)

MaxNetBatches == 2

\* vote_for on the voter's engine returned r: the vote is on the network
NetVoted(r) ==
    /\ peer' = r.d
    /\ sent' = sent \cup {r.d.vote_counter.pending[our_id(r.d)]}
    /\ UNCHANGED <<blk, dhb, joiner, hist, stored, ct, last, feed, outs>>

NetVote ==
    /\ Cardinality(sent) < 2
    /\ dhb.vote_counter.committed = EmptyMap
    /\ peer.vote_counter.committed = EmptyMap
    /\ NetVoted(IF sent = {} THEN vote_to_add(peer, JoinerId)
                ELSE vote_for(peer, EncryptionSchedule("Never")))

\* a vote of the voter is delivered to our engine
NetDeliver ==
    \E sv \in sent :
        /\ dhb' = handle_message(dhb, P2, MsgSignedVote(sv), <<>>).d
        /\ UNCHANGED <<blk, peer, joiner, hist, stored, ct, last, feed, outs, sent>>

NetProposeA ==
    /\ ~dhb.honey_badger.has_input
    /\ dhb' = propose(dhb, "tx", <<>>).d
    /\ UNCHANGED <<blk, peer, joiner, hist, stored, ct, last, feed, outs, sent>>

NetProposeB ==
    /\ ~peer.honey_badger.has_input
    /\ peer' = propose(peer, "tx", <<>>).d
    /\ UNCHANGED <<blk, dhb, joiner, hist, stored, ct, last, feed, outs, sent>>

\* the contribution map Honey Badger commits when it takes the proposals
\* of the engines in S, next to the plain contribution of validator P3
NetContents(S) ==
    [p \in {our_id(d) : d \in S} \cup {P3} |->
        IF p = our_id(dhb) THEN dhb.honey_badger.input
        ELSE IF p = our_id(peer) THEN peer.honey_badger.input
        ELSE PlainContrib]

\* Honey Badger commits the next epoch of session 0
NetCommit ==
    \E S \in SUBSET {d \in {dhb, peer} :
                        /\ d.honey_badger.epoch = Len(SessionFeed(0))
                        /\ d.honey_badger.has_input} :
        /\ Len(SessionFeed(0)) < MaxNetBatches
        /\ feed' = MapInsert(feed, 0, Append(SessionFeed(0), NetContents(S)))
        /\ UNCHANGED <<blk, dhb, peer, joiner, hist, stored, ct, last, outs, sent>>

NetOutputA ==
    /\ dhb.honey_badger.epoch < Len(SessionFeed(0))
    /\ dhb' = PairHandled(dhb, 1, SessionFeed(0)).d
    /\ UNCHANGED <<blk, peer, joiner, hist, stored, ct, last, feed, outs, sent>>

NetOutputB ==
    /\ peer.honey_badger.epoch < Len(SessionFeed(0))
    /\ peer' = PairHandled(peer, 1, SessionFeed(0)).d
    /\ UNCHANGED <<blk, dhb, joiner, hist, stored, ct, last, feed, outs, sent>>

NextNet ==
    \/ NetVote \/ NetDeliver \/ NetProposeA \/ NetProposeB
    \/ NetCommit \/ NetOutputA \/ NetOutputB

SpecNet == InitPair /\ [][NextNet]_vars

----------------------------------------------------------------------------
(* Specification of the vote counter alone, as the tests of votes.rs drive *)
(* it: node 1's counter among TestNodes in era TestEra                     *)

\* signed votes the counter may be handed: by a validator or by a node that
\* is none, of the counter's era or the next, signed by the voter or, for
\* the validator, by the Forger over the same content
VcVotes ==
    {SignedVote(Vote(c, era, n), w[1], Sign(w[2], Vote(c, era, n))) :
        c \in EnvChanges, era \in {TestEra, TestEra + 1}, n \in 0..MaxNum,
        w \in {<<P2, P2>>, <<P2, Forger>>, <<JoinerId, JoinerId>>}}

InitVC ==
    /\ ct = TestCounter
    /\ last = [op |-> "new"]
    /\ dhb = BuiltEngine
    /\ joiner = FALSE
    /\ hist = <<>>
    /\ stored = EmptyMap
    /\ peer = PeerEngine
    /\ feed = EmptyMap
    /\ outs = NoOutputs
    /\ sent = {}
    /\ blk = Booted

\* the counter after a call that returned r
VcRecorded(r, call) ==
    /\ ct' = r.vc
    /\ last' = call
    /\ UNCHANGED <<blk, dhb, joiner, hist, stored, peer, feed, outs, sent>>

VcSigned(r) == VcRecorded(r, [op |-> "sing_vote_for", sv |-> r.sv])

VcSignVoteFor ==
    \E change \in EnvChanges :
        /\ Us \in DOMAIN ct.pending => ct.pending[Us].vote.num < MaxNum
        /\ VcSigned(sing_vote_for(ct, change))

VcPendingAdded(sender_id, sv, r) ==
    VcRecorded(r, [op |-> "add_pending_vote", sender_id |-> sender_id, sv |-> sv,
                   faults |-> r.faults])

VcAddPendingVote ==
    \E sender_id \in {P3}, sv \in VcVotes :
        VcPendingAdded(sender_id, sv, add_pending_vote(ct, sender_id, sv))

VcCommittedAdded(proposer_id, sv, r) ==
    VcRecorded(r, [op |-> "add_committed_vote", proposer_id |-> proposer_id,
                   sv |-> sv, faults |-> r.faults])

VcAddCommittedVote ==
    \E proposer_id \in {P3}, sv \in VcVotes :
        VcCommittedAdded(proposer_id, sv, add_committed_vote(ct, proposer_id, sv))

\* vote batches of one proposer: any first vote for one change with num 0,
\* then a validly signed vote of validator P2 of the counter's era
VcBatches ==
    {<<a, ValidVote(P2, c, TestEra, n)>> :
        a \in {sv \in VcVotes : sv.vote.num = 0
                                /\ sv.vote.change = EncryptionSchedule("Never")},
        c \in EnvChanges, n \in 0..MaxNum}

VcCommittedAllAdded(proposer_id, svs, r) ==
    VcRecorded(r, [op |-> "add_committed_votes", proposer_id |-> proposer_id,
                   svs |-> svs, faults |-> r.faults])

VcAddCommittedVotes ==
    \E proposer_id \in {P3}, svs \in VcBatches :
        VcCommittedAllAdded(proposer_id, svs, add_committed_votes(ct, proposer_id, svs))

NextVC ==
    VcSignVoteFor \/ VcAddPendingVote \/ VcAddCommittedVote \/ VcAddCommittedVotes

SpecVC == InitVC /\ [][NextVC]_vars

----------------------------------------------------------------------------
(* Specification of the pending store of the counter: the counter signs,   *)
(* and nodes hand it votes of others and votes it signed earlier itself    *)

\* sing_vote_for returned r: the signed vote goes out to the network
OwnSigned(r) ==
    /\ ct' = r.vc
    /\ last' = [op |-> "sing_vote_for", sv |-> r.sv]
    /\ sent' = sent \cup {r.sv}
    /\ UNCHANGED <<blk, dhb, joiner, hist, stored, peer, feed, outs>>

OwnSignVoteFor ==
    \E change \in EnvChanges :
        /\ Us \in DOMAIN ct.pending => ct.pending[Us].vote.num < MaxNum
        /\ OwnSigned(sing_vote_for(ct, change))

OwnAddPendingVote ==
    \E sender_id \in {P3}, sv \in sent :
        VcPendingAdded(sender_id, sv, add_pending_vote(ct, sender_id, sv))

\* a vote the counter signed is committed in a batch of proposer P3
OwnAddCommittedVote ==
    \E proposer_id \in {P3}, sv \in sent :
        VcCommittedAdded(proposer_id, sv, add_committed_vote(ct, proposer_id, sv))

NextOwn ==
    \/ OwnSignVoteFor \/ OwnAddPendingVote \/ VcAddPendingVote
    \/ OwnAddCommittedVote

SpecOwn == InitVC /\ [][NextOwn]_vars

----------------------------------------------------------------------------
(* Specification of the committed store of the counter: batches commit     *)
(* validly signed votes of all four nodes, and the winner is computed      *)

WinVotes ==
    {ValidVote(v, c, TestEra, n) : v \in TestNodes, c \in EnvChanges, n \in 0..MaxNum}

WinAddCommittedVote ==
    \E proposer_id \in {P3}, sv \in WinVotes :
        VcCommittedAdded(proposer_id, sv, add_committed_vote(ct, proposer_id, sv))

WinComputeWinner ==
    VcRecorded([vc |-> ct], [op |-> "compute_winner", winner |-> compute_winner(ct)])

NextWin == WinAddCommittedVote \/ WinComputeWinner

SpecWin == InitVC /\ [][NextWin]_vars

----------------------------------------------------------------------------
(* Properties of the vote counter *)

\* C4: within one era the num of the vote stored in committed[v] only ever
\* strictly increases: whatever the counter is handed, a voter's committed
\* vote stays, or is replaced by a vote with a greater num.
CommittedNumIncreases ==
    [][\A v \in DOMAIN ct.committed :
          /\ v \in DOMAIN ct'.committed
          /\ \/ ct'.committed[v] = ct.committed[v]
             \/ ct'.committed[v].num > ct.committed[v].num]_vars

\* a vote whose num is not above the stored num was offered, names
\* another change, and the stored vote is still there
CommittedNumIncreasesWitness ==
    /\ last.op = "add_committed_vote"
    /\ last.sv.voter \in DOMAIN ct.committed
    /\ last.sv.vote.era = ct.era
    /\ validate(ct, last.sv)
    /\ last.sv.vote.num <= ct.committed[last.sv.voter].num
    /\ last.sv.vote.change # ct.committed[last.sv.voter].change

\* sv is of the counter's era and newer than the pending vote of its voter
NewerPending(vc, sv) ==
    /\ sv.vote.era = vc.era
    /\ sv.voter \in DOMAIN vc.pending => vc.pending[sv.voter].vote.num < sv.vote.num

\* C10: add_pending_vote(sender, sv) with sv of the current era, newer than
\* pending[sv.voter], and a signature that does not verify under the key of
\* sv.voter returns exactly the fault InvalidVoteSignature against the
\* sender and leaves the pending store unchanged.
InvalidPendingVoteFaultsSender ==
    [][(/\ last'.op = "add_pending_vote"
        /\ NewerPending(ct, last'.sv)
        /\ ~Verify(last'.sv.voter, last'.sv.sig, last'.sv.vote))
       => /\ last'.faults = <<[node |-> last'.sender_id,
                               kind |-> "InvalidVoteSignature"]>>
          /\ ct'.pending = ct.pending]_vars

\* a validator's vote of this era signed by another node was handed in by
\* a third; the fault names that sender
InvalidPendingVoteWitness ==
    /\ last.op = "add_pending_vote"
    /\ NewerPending(ct, last.sv)
    /\ last.sv.voter \in ct.pub_keys
    /\ last.sv.sig.signer \notin {last.sv.voter, last.sender_id}
    /\ last.sv.voter # last.sender_id
    /\ last.faults = FaultLogInit(last.sender_id, "InvalidVoteSignature")
    /\ ct.pending # EmptyMap

\* C11 as stated: add_pending_vote(sender, sv) returns an empty fault log
\* and leaves the pending store unchanged whenever sv is of another era
\* than the counter or its num is not above the num of pending[sv.voter],
\* whether or not the signature is valid; otherwise a validly signed sv
\* replaces pending[sv.voter].
StalePendingVoteIgnored ==
    [][last'.op = "add_pending_vote" =>
          IF ~NewerPending(ct, last'.sv)
          THEN last'.faults = NoFaults /\ ct'.pending = ct.pending
          ELSE validate(ct, last'.sv) =>
                  ct'.pending = MapInsert(ct.pending, last'.sv.voter, last'.sv)]_vars

\* voter v has a pending vote that its committed vote, if any, is older than
Uncommitted(vc, v) ==
    v \in DOMAIN vc.committed => vc.committed[v].num < vc.pending[v].vote.num

\* C12: after any sequence of sing_vote_for, add_pending_vote and
\* add_committed_vote calls, pending_votes() yields, in voter order, exactly
\* the pending entries whose num is strictly greater than the num of the
\* voter's committed vote, or whose voter has no committed vote.
PendingVotesAreUncommitted ==
    /\ \A v \in DOMAIN ct.pending :
          (\E i \in DOMAIN pending_votes(ct) : pending_votes(ct)[i] = ct.pending[v])
              <=> Uncommitted(ct, v)
    /\ \A i \in DOMAIN pending_votes(ct) :
          /\ pending_votes(ct)[i].voter \in DOMAIN ct.pending
          /\ pending_votes(ct)[i] = ct.pending[pending_votes(ct)[i].voter]
    /\ \A i, j \in DOMAIN pending_votes(ct) :
          i < j => pending_votes(ct)[i].voter < pending_votes(ct)[j].voter

\* our own vote is pending and yielded, and a validator's pending vote whose
\* num equals the num of its committed vote is not
PendingVotesAreUncommittedWitness ==
    /\ Us \in DOMAIN ct.pending
    /\ P2 \in DOMAIN ct.pending
    /\ P2 \in DOMAIN ct.committed
    /\ ct.committed[P2].num = ct.pending[P2].vote.num
    /\ Len(pending_votes(ct)) = 1
    /\ pending_votes(ct)[1].voter = Us

\* the committed vote of sv's voter is not older than sv
Superseded(committed, sv) ==
    sv.voter \in DOMAIN committed /\ committed[sv.voter].num >= sv.vote.num

\* what add_committed_vote(proposer_id, sv) is to do on a counter vc with
\* the committed store before: the store after and the faults returned
CommittedOutcome(vc, before, after, proposer_id, sv, faults) ==
    IF Superseded(before, sv)
    THEN faults = NoFaults /\ after = before
    ELSE IF sv.vote.era # vc.era \/ ~validate(vc, sv)
    THEN /\ faults = <<[node |-> proposer_id, kind |-> "InvalidCommittedVote"]>>
         /\ after = before
    ELSE /\ faults = NoFaults
         /\ after = MapInsert(before, sv.voter, sv.vote)

\* C13: add_committed_vote(proposer, sv) returns no fault and changes
\* nothing if committed[sv.voter].num >= sv.num, whatever era and signature
\* of sv; else it returns exactly the fault InvalidCommittedVote against the
\* proposer and leaves committed unchanged if sv is of another era or its
\* signature is invalid; else it stores sv.vote in committed[sv.voter].
\* add_committed_votes goes on with the remaining votes after a faulted one.
CommittedVoteContract ==
    [][/\ last'.op = "add_committed_vote" =>
            /\ CommittedOutcome(ct, ct.committed, ct'.committed,
                                last'.proposer_id, last'.sv, last'.faults)
            /\ ct'.pending = ct.pending
       /\ (/\ last'.op = "add_committed_votes"
           /\ ~Superseded(ct.committed, last'.svs[1])
           /\ last'.svs[1].vote.era # ct.era \/ ~validate(ct, last'.svs[1]))
          => /\ last'.faults # NoFaults
             /\ Head(last'.faults) =
                    [node |-> last'.proposer_id, kind |-> "InvalidCommittedVote"]
             /\ CommittedOutcome(ct, ct.committed, ct'.committed,
                                 last'.proposer_id, last'.svs[2], Tail(last'.faults))]_vars

\* a batch whose first vote was faulted for its forged signature and whose
\* second vote is now the committed vote of its voter
CommittedVoteContractWitness ==
    /\ last.op = "add_committed_votes"
    /\ last.svs[1].vote.era = ct.era
    /\ ~Verify(last.svs[1].voter, last.svs[1].sig, last.svs[1].vote)
    /\ last.faults = FaultLogInit(last.proposer_id, "InvalidCommittedVote")
    /\ last.svs[2].voter \in DOMAIN ct.committed
    /\ ct.committed[last.svs[2].voter] = last.svs[2].vote
    /\ last.svs[2].vote.num = 0

\* the voters whose committed vote names change c
Naming(vc, c) == {v \in DOMAIN vc.committed : vc.committed[v].change = c}

\* the changes that more than f = floor((n - 1) / 3) committed votes name
OverF(vc) ==
    {c \in {vc.committed[v].change : v \in DOMAIN vc.committed} :
        Cardinality(Naming(vc, c)) > (Cardinality(vc.pub_keys) - 1) \div 3}

\* C14: compute_winner returns Some(c) only if strictly more than
\* f = floor((n - 1) / 3) voters in committed name c, returns None exactly
\* when no change is named by more than f committed votes, and when it
\* returns Some, it is the change whose running count first exceeds f while
\* committed is scanned in voter order.
WinnerIsFirstOverF ==
    last.op = "compute_winner" =>
        /\ last.winner.some => last.winner.change \in OverF(ct)
        /\ ~last.winner.some <=> OverF(ct) = {}
        /\ last.winner.some =>
              \E k \in Naming(ct, last.winner.change) :
                  /\ Cardinality({v \in Naming(ct, last.winner.change) : v <= k})
                        = (Cardinality(ct.pub_keys) - 1) \div 3 + 1
                  /\ \A c \in OverF(ct) \ {last.winner.change} :
                        Cardinality({v \in Naming(ct, c) : v <= k})
                            <= (Cardinality(ct.pub_keys) - 1) \div 3

\* a winner was returned that is not the change of the first committed
\* vote, while another change has more than f votes too
WinnerIsFirstOverFWitness ==
    /\ last.op = "compute_winner"
    /\ last.winner.some
    /\ Cardinality(OverF(ct)) = 2
    /\ ct.committed[Min(DOMAIN ct.committed)].change # last.winner.change

\* C15 as stated: in every reachable state of a VoteCounter at most one
\* distinct change is named by strictly more than f = floor((n - 1) / 3)
\* committed votes.
AtMostOneChangeOverF == Cardinality(OverF(ct)) <= 1

\* C16 as stated: sing_vote_for(change) produces a vote of the counter's
\* era with num = pending[us].num + 1 if we have a pending entry, else 0;
\* afterwards pending[us] is exactly that signed vote; and the num of each
\* vote it signs is above the num of every vote it signed before.
SignedNumsIncrease ==
    [][last'.op = "sing_vote_for" =>
          /\ last'.sv.vote.era = ct.era
          /\ last'.sv.vote.num = IF ct.our_id \in DOMAIN ct.pending
                                 THEN ct.pending[ct.our_id].vote.num + 1 ELSE 0
          /\ ct'.pending = MapInsert(ct.pending, ct.our_id, last'.sv)
          /\ \A sv \in sent : last'.sv.vote.num > sv.vote.num]_vars

\* sv is one of the votes pending_votes() of vc yields
IsPendingVote(vc, sv) ==
    \E i \in 1..Len(pending_votes(vc)) : pending_votes(vc)[i] = sv

\* C39 as stated: for a validator whose secret key is used by its own
\* counter alone, in every reachable state committed[us].num is at most
\* pending[us].num, and the vote sing_vote_for has just returned has a num
\* above that of our committed vote and is among pending_votes().
OwnCommittedBelowPending ==
    /\ ct.our_id \in DOMAIN ct.committed =>
          /\ ct.our_id \in DOMAIN ct.pending
          /\ ct.committed[ct.our_id].num <= ct.pending[ct.our_id].vote.num
    /\ last.op = "sing_vote_for" =>
          /\ ct.our_id \in DOMAIN ct.committed =>
                last.sv.vote.num > ct.committed[ct.our_id].num
          /\ IsPendingVote(ct, last.sv)

----------------------------------------------------------------------------
(* Properties of the batches one engine emits *)

Completed(i) == hist[i].change.state = "Complete"

\* C1 as stated: every emitted batch has an epoch strictly greater than
\* the epoch of every batch the engine emitted before it.
EpochsStrictlyIncrease ==
    \A i, j \in 1..Len(hist) : i < j => hist[i].epoch < hist[j].epoch

\* C3 as stated: a batch carries Complete(c) only if in that batch or an
\* earlier one of the engine the committed store held votes naming c from
\* at least f + 1 voters of the era, validly signed.
CompleteWasVotedFor ==
    \A i \in 1..Len(hist) :
        Completed(i) =>
            \E j \in 1..i : hist[i].change.change \in hist[j].supported

\* C3, for an engine built with new: a batch carries Complete(c) only if
\* in that batch or an earlier one of the engine the committed store held
\* votes naming c from at least f + 1 voters of the era, validly signed.
CompleteWasVotedForUnlessJoined == ~joiner => CompleteWasVotedFor

\* an engine built with new has emitted a batch that completes a node
\* change voted for in an earlier batch
CompleteWasVotedForWitness ==
    /\ ~joiner
    /\ \E i \in 1..Len(hist) :
          /\ Completed(i)
          /\ hist[i].change.change.type = "NodeChange"
          /\ hist[i].change.change \notin hist[i].supported

\* C5: in the batches of an engine built with new, every batch with
\* Complete(NodeChange(k)) comes after a batch with InProgress(NodeChange(k)),
\* and no batch carries InProgress of an encryption schedule change.
ChangeStatesInOrder ==
    ~joiner =>
        \A i \in 1..Len(hist) :
            /\ (Completed(i) /\ hist[i].change.change.type = "NodeChange")
                  => \E j \in 1..(i - 1) :
                        hist[j].change = InProgress(hist[i].change.change)
            /\ hist[i].change.state = "InProgress"
                  => hist[i].change.change.type = "NodeChange"

\* an engine built with new has voted a node change in and completed it
ChangeStatesInOrderWitness ==
    /\ ~joiner
    /\ \E i \in 1..Len(hist) :
          /\ Completed(i)
          /\ hist[i].change.change.type = "NodeChange"
          /\ \E j \in 1..(i - 1) : hist[j].change.state = "InProgress"

\* C6: the era of the engine never decreases, and of two successive
\* batches with a Complete change the later has the strictly greater era.
EraNeverDecreases ==
    /\ [][dhb'.era >= dhb.era]_vars
    /\ [](\A i \in 1..Len(hist) :
            /\ hist[i].era_after >= hist[i].era_before
            /\ i > 1 => hist[i].era_before >= hist[i - 1].era_after
            /\ \A j \in (i + 1)..Len(hist) :
                  Completed(i) /\ Completed(j) => hist[j].era > hist[i].era)

\* two batches with a Complete change were emitted
EraNeverDecreasesWitness ==
    \E i, j \in 1..Len(hist) : i < j /\ Completed(i) /\ Completed(j)

CompleteAddsOneToEra ==
    \A i \in 1..Len(hist) :
        Completed(i) => hist[i].era_after = hist[i].era_before + 1

\* C8, as the code has it: after a batch with a Complete change the era is
\* the batch's epoch plus one, that is the era before plus the Honey Badger
\* epoch of the batch plus one.
CompleteSetsEraAfterEpoch ==
    \A i \in 1..Len(hist) :
        Completed(i) =>
            /\ hist[i].era_after = hist[i].era_before + hist[i].hb_epoch + 1
            /\ hist[i].era_after = hist[i].epoch + 1

\* a change completed in a batch that was not the first of its Honey
\* Badger instance, in an era after the first
CompleteSetsEraAfterEpochWitness ==
    \E i \in 1..Len(hist) :
        Completed(i) /\ hist[i].hb_epoch > 0 /\ hist[i].era_before > 0

----------------------------------------------------------------------------
(* Properties of handle_message *)

\* C9: handle_message with a message of any kind whose era differs from the
\* engine's era leaves the engine unchanged; if the message era is greater
\* the step holds exactly one fault UnexpectedDhbMessageEra against the
\* sender, and if it is smaller the step is empty.
OtherEraMessageIgnored ==
    [][(last'.op = "handle_message" /\ MessageEra(last'.message) # dhb.era)
       => /\ dhb' = dhb
          /\ hist' = hist
          /\ last'.err = "None"
          /\ last'.step =
                IF MessageEra(last'.message) > dhb.era
                THEN [output |-> <<>>,
                      fault_log |-> <<[node |-> last'.sender_id,
                                       kind |-> "UnexpectedDhbMessageEra"]>>,
                      messages |-> <<>>]
                ELSE [output |-> <<>>, fault_log |-> <<>>, messages |-> <<>>]]_vars

\* an engine that runs a key generation was handed a KeyGen message of the
\* next era and reported the fault
OtherEraMessageIgnoredWitness ==
    /\ last.op = "handle_message"
    /\ last.message.type = "KeyGen"
    /\ MessageEra(last.message) = dhb.era + 1
    /\ dhb.key_gen_state.some
    /\ dhb.era > 0
    /\ last.step.fault_log = FaultLogInit(last.sender_id, "UnexpectedDhbMessageEra")

----------------------------------------------------------------------------
(* Properties of two engines *)

\* C2 as stated: whenever two engines fed the same committed Honey Badger
\* batches, in any grouping into steps, have both emitted a batch with the
\* same epoch, the two batches are equal by Batch::public_eq.
SameEpochSameBatch ==
    \A i \in 1..Len(outs.a), j \in 1..Len(outs.b) :
        outs.a[i].epoch = outs.b[j].epoch => public_eq(outs.a[i], outs.b[j])

----------------------------------------------------------------------------
(* Properties of a voter's successive votes *)

\* batch i of session 0 carries the signed vote sv in some contribution
Carries(i, sv) ==
    \E p \in DOMAIN feed[0][i] :
        \E k \in DOMAIN feed[0][i][p].votes : feed[0][i][p].votes[k] = sv

\* C17 as stated: if voter v signs and broadcasts a vote for change A
\* (num 0) and then a vote for change B (num 1) before either is committed,
\* then no engine ever holds A in its committed store.
FirstVoteNeverCommitted ==
    Cardinality(sent) = 2 =>
        \A d \in {dhb, peer} : \A sv \in sent :
            (sv.vote.num = 0 /\ sv.voter \in DOMAIN d.vote_counter.committed)
                => d.vote_counter.committed[sv.voter] # sv.vote

\* C17, as the engines have it: once an engine has been handed a batch
\* that carries v's second vote (num 1), its committed vote of v is that
\* vote, whatever the same batch or a later one carries.
SecondVoteStaysCommitted ==
    \A d \in {dhb, peer} : \A sv \in sent :
        (sv.vote.num = 1 /\ \E i \in 1..d.honey_badger.epoch : Carries(i, sv))
            => /\ sv.voter \in DOMAIN d.vote_counter.committed
               /\ d.vote_counter.committed[sv.voter] = sv.vote

\* our engine was handed a batch in which our contribution carries v's
\* second vote and v's own contribution, later in the batch, the first
SecondVoteStaysCommittedWitness ==
    \E i \in 1..dhb.honey_badger.epoch : \E a, b \in sent :
        /\ a.vote.num = 0 /\ b.vote.num = 1
        /\ {Us, P2} \subseteq DOMAIN feed[0][i]
        /\ feed[0][i][Us].votes = <<b>>
        /\ feed[0][i][P2].votes = <<a>>
        /\ dhb.vote_counter.committed[P2] = b.vote

----------------------------------------------------------------------------
(* Properties of the batches emitted for Honey Badger batches *)

\* the step the engine returns when Honey Badger outputs contents on a
\* message of validator P2
HbMessageStep(contents) ==
    handle_message(dhb, P2, MsgHoneyBadger(dhb.era, "hb"), contents).step

\* output has one batch per Honey Badger batch of contents, with the
\* proposers as keys and their user contributions as values
BatchesMatch(output, contents) ==
    /\ Len(output) = Len(contents)
    /\ \A i \in 1..Len(contents) :
          /\ DOMAIN output[i].contributions = DOMAIN contents[i]
          /\ \A id \in DOMAIN contents[i] :
                output[i].contributions[id] = contents[i][id].contrib

\* some fault of the kind is logged against the node
Faulted(fault_log, node, kind) ==
    \E i \in 1..Len(fault_log) :
        fault_log[i].node = node /\ fault_log[i].kind = kind

\* C22: for every Honey Badger batch processed the engine emits exactly one
\* Batch whose contribution map has exactly the proposers as keys, each
\* mapped to the proposer's user contribution, also when votes or key
\* generation messages carried by the contributions are faulted.
EmitsBatchPerHbBatch ==
    \A contents \in HbOutputs(dhb) :
        BatchesMatch(HbMessageStep(contents).output, contents)

\* the last call processed one Honey Badger batch proposed by P2 and P3,
\* faulted P3 for the forged vote its contribution carried, and emitted
\* the batch with both contributions
EmitsBatchPerHbBatchWitness ==
    /\ last.op = "handle_message"
    /\ Len(last.step.output) = 1
    /\ Faulted(last.step.fault_log, P3, "InvalidCommittedVote")
    /\ DOMAIN last.step.output[1].contributions = {P2, P3}
    /\ last.step.output[1].contributions[P3] = "tx2"

----------------------------------------------------------------------------
(* Properties of messages of nodes that are no validators *)

\* what handle_message returns for a Honey Badger message of the current
\* era from sender_id
HbMessageFrom(sender_id, contents) ==
    handle_message(dhb, sender_id, MsgHoneyBadger(dhb.era, "hb"), contents)

\* r is the error UnknownSender and leaves the engine as it was
RejectedAsUnknown(r) ==
    /\ r.err = "UnknownSender"
    /\ r.d = dhb
    /\ r.step = EmptyStep

\* C23: handle_message with a Honey Badger message of the current era from
\* a node that is not a validator returns the error UnknownSender, does not
\* hand the message to Honey Badger and leaves the engine unchanged.
UnknownSenderRejected ==
    \A sender_id \in EnvSenders \ netinfo(dhb).all_ids :
        \A contents \in MsgOutputs(dhb, MsgHoneyBadger(dhb.era, "hb")) :
            RejectedAsUnknown(HbMessageFrom(sender_id, contents))

----------------------------------------------------------------------------
(* Properties of the change in progress *)

\* batches of one era that report a change in progress report the same
SameEraSameChange ==
    \A i, j \in 1..Len(hist) :
        (/\ hist[i].era = hist[j].era
         /\ hist[i].change.state = "InProgress"
         /\ hist[j].change.state = "InProgress")
            => hist[i].change = hist[j].change

\* this step replaces a running key generation by one for another key map
KeyGenReplaced ==
    /\ dhb.key_gen_state.some
    /\ dhb'.key_gen_state.some
    /\ dhb'.key_gen_state.key_gen.pub_keys # dhb.key_gen_state.key_gen.pub_keys

\* C24: two batches an engine emits with the same era and a change in
\* progress carry the same change, and a node change that wins while a key
\* generation for another key map runs starts the new key generation only
\* together with a change of the era.  (That the engine holds at most one
\* key generation is its type: key_gen_state is one Option.)
OneChangeInProgress ==
    [][/\ SameEraSameChange'
       /\ KeyGenReplaced => dhb'.era > dhb.era]_vars

\* the engine reported NodeChange(Ka) in progress, then, in a later era,
\* NodeChange(Kb), whose key generation now runs
OneChangeInProgressWitness ==
    /\ Len(hist) = 2
    /\ hist[1].change = InProgress(NodeChange(Ka))
    /\ hist[2].change = InProgress(NodeChange(Kb))
    /\ hist[1].era < hist[2].era
    /\ dhb.key_gen_state.some
    /\ dhb.key_gen_state.key_gen.pub_keys = Kb

----------------------------------------------------------------------------
(* Properties of a batch that completes a change *)

\* batch b shows the change it completes: the new key map, or the new
\* encryption schedule in its parameters
ShowsCompleted(b) ==
    IF b.change.change.type = "NodeChange"
    THEN b.pub_keys = b.change.change.pub_keys
    ELSE b.params.encryption_schedule = b.change.change.schedule

\* batch b, emitted when the engine's era was era_before, completed a
\* change and left the engine d
RestartedAfter(b, era_before, d) ==
    /\ d.era = b.epoch + 1
    /\ d.honey_badger.epoch = 0
    /\ next_epoch(d) = b.epoch + 1
    /\ b.era = era_before
    /\ b.era < d.era
    /\ ShowsCompleted(b)

\* C25: when processing a Honey Badger batch yields a Complete change at the
\* rebased epoch batch_epoch, the era afterwards is batch_epoch + 1, the
\* inner Honey Badger epoch is 0 so that next_epoch() = batch_epoch + 1, and
\* the emitted batch is labelled with the old era; for
\* Complete(NodeChange(k)) the batch's pub_keys are k and for
\* Complete(EncryptionSchedule(s)) the batch's params carry s.
CompleteBatchRestarts ==
    (last.op # "new" /\ last.step.output # <<>>
        /\ last.step.output[Len(last.step.output)].change.state = "Complete")
    => RestartedAfter(last.step.output[Len(last.step.output)],
                      hist[Len(hist)].era_before, dhb)

\* the last call finished the key generation for Ka in a batch that was not
\* the first of its era: the batch reports Complete(NodeChange(Ka))
CompleteBatchRestartsWitness ==
    /\ last.op # "new" /\ Len(last.step.output) = 1
    /\ last.step.output[1].change = Complete(NodeChange(Ka))
    /\ last.step.output[1].epoch > last.step.output[1].era
    /\ dhb.pub_keys = Ka

----------------------------------------------------------------------------
(* Properties of the restart of Honey Badger *)

\* the votes engine d holds, pending and committed, are of its era
VotesOfOwnEra(d) ==
    /\ \A v \in DOMAIN d.vote_counter.pending :
          d.vote_counter.pending[v].vote.era = d.era
    /\ \A v \in DOMAIN d.vote_counter.committed :
          d.vote_counter.committed[v].era = d.era

\* engine d holds no vote and no key generation message of an era before
\* its own, and the next vote it signs has num 0
FreshVotes(d) ==
    /\ d.vote_counter.pending = EmptyMap
    /\ d.vote_counter.committed = EmptyMap
    /\ ~compute_winner(d.vote_counter).some
    /\ \A i \in 1..Len(d.key_gen_msg_buffer) : d.key_gen_msg_buffer[i].era >= d.era
    /\ \A change \in EnvChanges :
          /\ sing_vote_for(d.vote_counter, change).sv.vote.num = 0
          /\ sing_vote_for(d.vote_counter, change).sv.vote.era = d.era

\* C26: after every restart of Honey Badger (every change of the era) the
\* pending and the committed store of the vote counter are empty and the
\* key generation buffer holds no entry of an older era, so that a vote
\* committed in era e never counts in compute_winner in a later era and our
\* own next signed vote has num 0 again.
RestartClearsVotes ==
    [][/\ VotesOfOwnEra(dhb)'
       /\ dhb'.era # dhb.era => FreshVotes(dhb')]_vars

\* the engine, built as a validator, started the key generation for Ka and
\* buffered its Part; the votes for the encryption schedule then won, and
\* the restart left no vote and nothing in the buffer
RestartClearsVotesWitness ==
    /\ ~joiner
    /\ Len(hist) >= 2
    /\ hist[Len(hist)].change = Complete(EncryptionSchedule("Never"))
    /\ EncryptionSchedule("Never") \in hist[Len(hist)].supported
    /\ dhb.era = hist[Len(hist)].era_after
    /\ dhb.era > hist[Len(hist)].era_before
    /\ dhb.key_gen_state.some
    /\ dhb.key_gen_msg_buffer = <<>>
    /\ dhb.vote_counter.committed = EmptyMap

----------------------------------------------------------------------------
(* Properties of update_key_gen *)

\* r, returned for engine d, is no operation
NoOperation(r, d) == r.d = d /\ r.step = EmptyStep

\* C27, its first half: update_key_gen(era, pub_keys) called while a key
\* generation for exactly pub_keys runs is a no-op: era, Honey Badger, vote
\* counter, buffer and key generation are unchanged and the step is empty.
UpdateKeyGenSameKeysNoOp ==
    dhb.key_gen_state.some
        => NoOperation(update_key_gen(dhb, next_epoch(dhb) + 1,
                                      dhb.key_gen_state.key_gen.pub_keys), dhb)

----------------------------------------------------------------------------
(* Properties of key generation messages handed to handle_message *)

\* the number of key generation messages of sender_id counted in this run
\* of the key generation
Counted(d, sender_id) ==
    IF sender_id \in DOMAIN d.key_gen_state.msg_count
    THEN d.key_gen_state.msg_count[sender_id] ELSE 0

\* r, returned for engine d, faults sender_id with kind and leaves the
\* buffer as it was
FaultedNotBuffered(r, d, sender_id, kind) ==
    /\ r.step = StepFault(sender_id, kind)
    /\ r.d.key_gen_msg_buffer = d.key_gen_msg_buffer

\* what handle_message returns for a key generation message
KgMessageFrom(sender_id, message) == handle_message(dhb, sender_id, message, <<>>)

\* C28: in one run of the key generation at most n + 1 key generation
\* messages of a sender are appended to the buffer by handle_message, n the
\* number of nodes of the key generation; a further message faults the
\* sender with TooManyKeyGenMessages and is not appended.
KeyGenMessagesLimited ==
    dhb.key_gen_state.some =>
        \A sender_id \in EnvSenders :
            \A message \in KgMessages(dhb, sender_id) :
                (/\ verify_signature(dhb, sender_id, message.sig, message.kg_msg)
                 /\ Counted(dhb, sender_id)
                       >= Cardinality(dhb.key_gen_state.key_gen.pub_keys) + 1)
                => FaultedNotBuffered(KgMessageFrom(sender_id, message), dhb,
                                      sender_id, "TooManyKeyGenMessages")

\* C29, for a message handed to handle_message: a key generation message
\* whose signature verifies neither under the sender's current key nor under
\* its candidate key faults the sender with InvalidKeyGenMessageSignature
\* and is not buffered.
KeyGenSignatureChecked ==
    dhb.key_gen_state.some =>
        \A sender_id \in EnvSenders :
            \A message \in KgMessages(dhb, sender_id) :
                ~verify_signature(dhb, sender_id, message.sig, message.kg_msg)
                => FaultedNotBuffered(KgMessageFrom(sender_id, message), dhb,
                                      sender_id, "InvalidKeyGenMessageSignature")

----------------------------------------------------------------------------
(* Properties of the key generation buffer *)

\* message m is carried by a contribution of the Honey Badger batch b
CarriedBy(b, m) ==
    \E id \in DOMAIN b :
        \E i \in 1..Len(b[id].key_gen_messages) : b[id].key_gen_messages[i] = m

\* s is the beginning of t
IsPrefix(s, t) == Len(s) <= Len(t) /\ \A i \in 1..Len(s) : s[i] = t[i]

\* engine d1 is what processing batch b made of dhb: its buffer holds no
\* message that b carried, and, unless Honey Badger was restarted, it still
\* holds the others, in their order, before anything new
BufferCleaned(d1, b) ==
    /\ \A j \in 1..Len(d1.key_gen_msg_buffer) : ~CarriedBy(b, d1.key_gen_msg_buffer[j])
    /\ d1.era = dhb.era =>
          IsPrefix(SelectSeq(dhb.key_gen_msg_buffer, LAMBDA m : ~CarriedBy(b, m)),
                   d1.key_gen_msg_buffer)

\* C30: after a Honey Badger batch is processed the key generation buffer
\* holds no entry equal to a signed key generation message carried in a
\* contribution of the batch; the entries that were not carried are still
\* there unless a restart dropped them.
CarriedKeyGenRemoved ==
    \A b \in BatchContents(dhb) :
        BufferCleaned(
            handle_message(dhb, P2, MsgHoneyBadger(dhb.era, "hb"), <<b>>).d, b)

\* the engine, built as a validator, has a key generation running, for
\* which it buffered its own Part; the last call processed a batch that
\* carried the Part, without a restart: the Part is handled and gone from
\* the buffer, which holds the Ack the engine sent for it
CarriedKeyGenRemovedWitness ==
    /\ ~joiner
    /\ dhb.key_gen_state.some
    /\ Us \in dhb.key_gen_state.key_gen.parts
    /\ last.op = "handle_message"
    /\ Len(last.step.output) = 1
    /\ hist[Len(hist)].era_after = hist[Len(hist)].era_before
    /\ hist[Len(hist)].era_after = dhb.era
    /\ dhb.key_gen_msg_buffer = <<SignedKg(dhb.era, Us, Ack(Us, TRUE))>>

----------------------------------------------------------------------------
(* Properties of the way key generation messages reach the key generation *)

\* a batch in which P2 proposes the Part that sender signed for the era
CarriedPart(era, sender) ==
    <<[p \in {P2} |-> InternalContrib("tx", <<SignedKg(era, sender, Part(TRUE))>>, <<>>)]>>

\* r, returned for engine dhb, faults the proposer P2 once, for the era of
\* the message, and has not handed the message to the key generation
FaultedForEra(r) ==
    /\ r.step.fault_log = FaultLogInit(P2, "InvalidKeyGenMessageEra")
    /\ r.d.key_gen_state = dhb.key_gen_state
    /\ r.d.key_gen_msg_buffer = dhb.key_gen_msg_buffer

\* r, returned for engine dhb, has not handed anything to the key generation
NotDelivered(r) ==
    /\ r.d.key_gen_state.some = dhb.key_gen_state.some
    /\ dhb.key_gen_state.some =>
          r.d.key_gen_state.key_gen = dhb.key_gen_state.key_gen

\* C31: when a committed contribution of proposer id carries a signed key
\* generation message of another era than the engine's, the step records
\* the fault InvalidKeyGenMessageEra against the proposer, not against the
\* signer, and the message is not handed to the key generation; handle_message
\* hands no Part and no Ack to the key generation directly.
OtherEraKeyGenFaultsProposer ==
    /\ \A era \in EnvEras(dhb) \ {dhb.era} :
          \A sender \in {Us, P3} :
              FaultedForEra(handle_message(dhb, P2, MsgHoneyBadger(dhb.era, "hb"),
                                           CarriedPart(era, sender)))
    /\ \A sender_id \in EnvSenders :
          \A message \in KgMessages(dhb, sender_id) :
              NotDelivered(handle_message(dhb, sender_id, message, <<>>))

\* a key generation runs that has seen no Part, and the last call processed
\* a batch in which P2 proposed a Part of another era: P2 is faulted for it
OtherEraKeyGenFaultsProposerWitness ==
    /\ dhb.key_gen_state.some
    /\ dhb.key_gen_state.key_gen.parts = {}
    /\ last.op = "handle_message"
    /\ Len(last.step.output) = 1
    /\ DOMAIN last.step.output[1].contributions = {P2}
    /\ last.step.fault_log = FaultLogInit(P2, "InvalidKeyGenMessageEra")

----------------------------------------------------------------------------
(* Properties of the end of a key generation *)

\* the engine and the step after the loop over the contributions of the
\* one batch contents
Committed(contents) ==
    ProcessContributions(
        [d |-> HbReturned(dhb, dhb.honey_badger, contents), step |-> EmptyStep,
         contributions |-> EmptyMap],
        contents[1], SetToSeq(DOMAIN contents[1]))

\* what the engine has made of the batch when c is what the loop over its
\* contributions left
AfterBatch(c) ==
    ContributionsProcessed(dhb.era, dhb.honey_badger.epoch + dhb.era, c)

\* the key generation kgs is ready as KeyGenState::is_ready has it
ReadyToFinish(kgs) ==
    /\ kgs.some
    /\ SkgIsReady(kgs.key_gen)
    /\ SkgCountComplete(kgs.key_gen) * 3 > 2 * Cardinality(kgs.key_gen.pub_keys)

\* pb reports the end of the key generation that runs in c.d, and nothing
\* of what the votes committed in c.d ask for
FinishedBeforeVotes(c, pb) ==
    /\ pb.step.output[1].change =
           Complete(NodeChange(c.d.key_gen_state.key_gen.pub_keys))
    /\ pb.d.pub_keys = c.d.key_gen_state.key_gen.pub_keys
    /\ ~pb.d.key_gen_state.some
    /\ pb.d.honey_badger.params = c.d.honey_badger.params
    /\ pb.d.vote_counter.committed = EmptyMap
    /\ pb.d.vote_counter.pending = EmptyMap
    /\ pb.step.messages = c.step.messages

\* if the key generation is ready in c, the batch reports its end
FinishedIfReady(c) ==
    ReadyToFinish(c.d.key_gen_state) => FinishedBeforeVotes(c, AfterBatch(c))

\* C32: when the running key generation is ready at the end of processing a
\* batch, the batch reports Complete(NodeChange(its key map)) and the end
\* of the key generation comes before the votes: a change that
\* compute_winner would return in the same batch is not acted upon, its
\* committed votes are discarded by the restart, and afterwards no key
\* generation runs.
ReadyKeyGenFinishedFirst ==
    dhb.key_gen_state.some =>
        \A contents \in DkgBatches(dhb) : FinishedIfReady(Committed(contents))

\* the last batch ended the key generation although the votes it committed
\* made a change win: no key generation runs and no vote is left
ReadyKeyGenFinishedFirstWitness ==
    /\ last.op = "handle_message"
    /\ Len(last.step.output) = 1
    /\ last.step.output[1].change = Complete(NodeChange(dhb.pub_keys))
    /\ hist[Len(hist)].supported # {}
    /\ ~dhb.key_gen_state.some
    /\ dhb.vote_counter.committed = EmptyMap

\* pb does not report the end of a key generation, and the key generation
\* of c.d is where it was when take_ready_key_gen has looked at it
LeftInPlace(c, pb) ==
    /\ take_ready_key_gen(c.d) = [d |-> c.d, kgs |-> NoKeyGen]
    /\ \/ pb.step.output[1].change.state # "Complete"
       \/ pb.step.output[1].change.change.type # "NodeChange"
    /\ \/ pb.d.key_gen_state = c.d.key_gen_state
       \/ pb.step.output[1].change.state = "InProgress"

\* the key generation of c.d is taken if it is ready, and left if not
TakenOnlyIfReady(c) ==
    IF ReadyToFinish(c.d.key_gen_state)
    THEN take_ready_key_gen(c.d).kgs = c.d.key_gen_state
    ELSE LeftInPlace(c, AfterBatch(c))

\* C36: a node change is finished (take_ready_key_gen returns the key
\* generation and the batch reports Complete) only when the key generation
\* reports ready and count_complete * 3 > 2 * |candidate pub_keys|; if
\* either fails, the key generation stays in place and the batch does not
\* report Complete(NodeChange).
FinishedOnlyIfReady ==
    dhb.key_gen_state.some =>
        \A contents \in DkgBatches(dhb) : TakenOnlyIfReady(Committed(contents))

\* the key generation for two nodes reports ready with one complete part,
\* which is not more than two thirds of two: the last batch left it running
FinishedOnlyIfReadyWitness ==
    /\ dhb.key_gen_state.some
    /\ SkgIsReady(dhb.key_gen_state.key_gen)
    /\ SkgCountComplete(dhb.key_gen_state.key_gen) * 3
          <= 2 * Cardinality(dhb.key_gen_state.key_gen.pub_keys)
    /\ last.op = "handle_message"
    /\ Len(last.step.output) = 1
    /\ last.step.output[1].change = NoChange
    /\ hist[Len(hist)].era_after = hist[Len(hist)].era_before

----------------------------------------------------------------------------
(* Properties of should_propose and vote_for *)

\* C33, in an epoch in which Honey Badger has received no proposal yet:
\* should_propose() is true if and only if the engine has no outstanding
\* Honey Badger input and pending_votes() is not empty or
\* key_gen_msg_buffer is not empty.
ShouldProposeIff ==
    should_propose(dhb) <=>
        (/\ ~has_input(dhb)
         /\ \/ pending_votes(dhb.vote_counter) # <<>>
            \/ dhb.key_gen_msg_buffer # <<>>)

\* what the three operations that vote return for engine d
VoteCalls(d) ==
    {vote_for(d, change) : change \in EnvChanges}
    \cup {vote_to_add(d, JoinerId), vote_to_remove(d, P3)}

\* r is an empty step and engine d as it was
NothingVoted(r, d) == r.d = d /\ r.step = EmptyStep /\ r.err = "None"

\* r holds exactly one message, a vote signed by engine d and sent to all,
\* which is now d's own pending vote
OneVoteBroadcast(r, d) ==
    /\ r.err = "None"
    /\ r.step.output = <<>> /\ r.step.fault_log = <<>>
    /\ Len(r.step.messages) = 1
    /\ r.step.messages[1].target = "All"
    /\ r.step.messages[1].message.type = "SignedVote"
    /\ r.step.messages[1].message.sv.voter = our_id(d)
    /\ validate(d.vote_counter, r.step.messages[1].message.sv)
    /\ r.d.vote_counter.pending[our_id(d)] = r.step.messages[1].message.sv

\* C34: vote_for, vote_to_add and vote_to_remove called on an engine that
\* is not a validator return an empty step and change nothing: no vote is
\* signed, the pending store is as it was and no message is sent; called on
\* a validator they broadcast exactly one SignedVote message to all.
OnlyValidatorsVote ==
    \A r \in VoteCalls(dhb) :
        IF is_validator(netinfo(dhb)) THEN OneVoteBroadcast(r, dhb)
        ELSE NothingVoted(r, dhb)

\* the last call was vote_for on the engine of the joining node, which
\* holds no key share: the step is empty and no vote is pending
OnlyValidatorsVoteWitness ==
    /\ joiner
    /\ ~is_validator(netinfo(dhb))
    /\ last.op = "vote_for"
    /\ last.step = EmptyStep
    /\ dhb.vote_counter.pending = EmptyMap

----------------------------------------------------------------------------
(* Properties of the eras of the messages of two engines *)

\* the messages engine d sends when it votes for change
VoteMessages(d, change) ==
    {vote_for(d, change).step.messages[i].message :
        i \in 1..Len(vote_for(d, change).step.messages)}

\* engine d, handed message m of sender_id, faults the sender for the era
FaultsEra(d, sender_id, m) ==
    Faulted(handle_message(d, sender_id, m, <<>>).step.fault_log,
            sender_id, "UnexpectedDhbMessageEra")

\* C35: in every interleaving of batch processing and message delivery no
\* correct engine records the fault UnexpectedDhbMessageEra against another
\* correct engine: a correct node sends no message, such as a vote signed
\* in its new era, with an era greater than that of a correct receiver that
\* has not yet processed the same batch.
NoEraFaultAmongCorrect ==
    \A change \in EnvChanges :
        /\ \A m \in VoteMessages(dhb, change) : ~FaultsEra(peer, our_id(dhb), m)
        /\ \A m \in VoteMessages(peer, change) : ~FaultsEra(dhb, our_id(peer), m)

----------------------------------------------------------------------------
(* Properties of the eras of the buffered key generation messages *)

\* every entry of the key generation buffer of d carries the era of d
BufferEras(d) == {d.key_gen_msg_buffer[i].era : i \in 1..Len(d.key_gen_msg_buffer)}

\* C37: in every reachable state every entry of key_gen_msg_buffer has the
\* era of the engine, so the filter of propose selects the whole buffer and
\* the contribution carries every buffered key generation message.
BufferOfOurEra ==
    /\ BufferEras(dhb) \subseteq {dhb.era}
    /\ OurContrib(dhb, "tx").key_gen_messages = dhb.key_gen_msg_buffer

\* the engine restarted twice and buffers key generation messages
BufferOfOurEraWitness ==
    /\ Len(hist) = MaxKgBatches
    /\ dhb.era > 1
    /\ Len(dhb.key_gen_msg_buffer) > 1

----------------------------------------------------------------------------
(* Properties of the copies of the era and of the key map *)

\* C38: in every reachable state the vote counter has the era and the key
\* map of the engine, and the validator ids of the NetworkInfo of the
\* wrapped Honey Badger are the keys of the key map of the engine.
CounterFollowsEngine ==
    /\ dhb.vote_counter.era = dhb.era
    /\ dhb.vote_counter.pub_keys = dhb.pub_keys
    /\ netinfo(dhb).all_ids = dhb.pub_keys

\* a key generation has ended and the engine has a new key map in a later era
CounterFollowsEngineWitness ==
    /\ dhb.era > 1
    /\ dhb.pub_keys = Kc
    /\ ~dhb.key_gen_state.some
    /\ Len(last.step.output) = 1
    /\ last.step.output[1].change = Complete(NodeChange(Kc))

----------------------------------------------------------------------------
(* Specification of the block driver: running processes ask for reads and  *)
(* writes, the scheduler runs the kernel processes, the devices use the    *)
(* requests made available and raise their interrupts                      *)

\* A waiting process makes no system call, so at most one request of each
\* process is under way and the states of the driver are finitely many.

BlkStep(b) ==
    /\ blk' = b
    /\ UNCHANGED <<dhb, joiner, hist, stored, ct, last, peer, feed, outs, sent>>

\* a running process makes the system call that ends in process_read
BlkProcessRead ==
    /\ "Running" \in {blk.procs[pid] : pid \in Pids}
    /\ \E pid \in Pids, dev \in BlockDevs, size \in BlockSizes :
          /\ blk.procs[pid] = "Running"
          /\ BlkStep(process_read(blk, pid, dev, size))

\* a running process makes the system call that ends in process_write
BlkProcessWrite ==
    /\ "Running" \in {blk.procs[pid] : pid \in Pids}
    /\ \E pid \in Pids, dev \in BlockDevs, size \in BlockSizes :
          /\ blk.procs[pid] = "Running"
          /\ BlkStep(process_write(blk, pid, dev, size))

\* the scheduler runs the oldest kernel process to its end
BlkKernelProcess ==
    /\ blk.kprocs # <<>>
    /\ BlkStep(IF Head(blk.kprocs).write
               THEN write_proc([blk EXCEPT !.kprocs = Tail(@)], Head(blk.kprocs))
               ELSE read_proc([blk EXCEPT !.kprocs = Tail(@)], Head(blk.kprocs)))

\* the device dev uses the oldest request made available to it
BlkDeviceUses(dev) ==
    /\ blk.devices[dev].avail # <<>>
    /\ BlkStep([blk EXCEPT !.devices[dev].avail = Tail(@),
                           !.devices[dev].used =
                               Append(@, Head(blk.devices[dev].avail))])

\* the interrupt of the device dev that has used requests
BlkInterrupt(dev) ==
    /\ blk.devices[dev].used # <<>>
    /\ BlkStep(handle_interrupt(blk, dev))

BlkDevice == \E dev \in BlockDevs : BlkDeviceUses(dev)
BlkInterrupts == \E dev \in BlockDevs : BlkInterrupt(dev)

NextBlock ==
    \/ BlkProcessRead \/ BlkProcessWrite \/ BlkKernelProcess
    \/ BlkDevice \/ BlkInterrupts

SpecBlock == Init /\ [][NextBlock]_vars

\* the scheduler runs every kernel process, every device uses every request
\* and every interrupt is handled
FairBlock ==
    /\ SpecBlock
    /\ WF_vars(BlkKernelProcess)
    /\ \A dev \in BlockDevs : WF_vars(BlkDeviceUses(dev)) /\ WF_vars(BlkInterrupt(dev))

\* C40 as stated: every process that process_read or process_write has put
\* into the waiting state is eventually set running again, also when
\* block_op rejects the request.
WaitingProcessResumes ==
    \A pid \in Pids : (blk.procs[pid] = "Waiting") ~> (blk.procs[pid] = "Running")

----------------------------------------------------------------------------
(* Properties of a single vote to add a node *)

\* the committed store of engine d holds the voter's vote to add the node
AddVoteCommitted(d) ==
    /\ P2 \in DOMAIN d.vote_counter.committed
    /\ d.vote_counter.committed[P2].change = NodeChange(Validators0 \cup {JoinerId})

\* Honey Badger has committed a batch that engine d has not been handed yet
HasNextBatch(d) == d.honey_badger.epoch < Len(SessionFeed(0))

\* the change of the batch engine d emits when it is handed its next batch
NextBatchChange(d) == PairHandled(d, 1, SessionFeed(0)).step.output[1].change

\* C21 as stated: in a four-validator network in which exactly one
\* validator calls vote_to_add(node5, pk5) and all keep proposing, once that
\* signed vote has been committed, the next batch carries
\* change = InProgress(NodeChange(the five-node key map)).
SingleVoteGoesInProgress ==
    \A d \in {dhb, peer} :
        (Cardinality(sent) = 1 /\ AddVoteCommitted(d) /\ HasNextBatch(d))
            => NextBatchChange(d) = InProgress(NodeChange(Validators0 \cup {JoinerId}))

\* C21, with the threshold of compute_winner: the committed vote of one
\* validator of four does not exceed f = 1, so no key generation starts,
\* the era stays 0 and the next batch, like every batch, carries no change.
SingleVoteStaysIdle ==
    \A d \in {dhb, peer} :
        /\ d.era = 0
        /\ ~d.key_gen_state.some
        /\ ~compute_winner(d.vote_counter).some
        /\ HasNextBatch(d) => NextBatchChange(d) = NoChange

\* the vote to add the node is the voter's only vote, the first batch
\* carried it in our contribution and in the voter's, our engine has
\* committed it, and the next batch is there to be handed to it
SingleVoteStaysIdleWitness ==
    /\ Cardinality(sent) = 1
    /\ AddVoteCommitted(dhb)
    /\ dhb.honey_badger.epoch = 1
    /\ HasNextBatch(dhb)
    /\ \A sv \in sent :
          /\ {Us, P2} \subseteq DOMAIN feed[0][1]
          /\ feed[0][1][Us].votes = <<sv>>
          /\ feed[0][1][P2].votes = <<sv>>

----------------------------------------------------------------------------
(* Properties of join plans *)

\* the key map a key generation of engine d is running for, if any
KeyGenFor(d) ==
    IF d.key_gen_state.some THEN {d.key_gen_state.key_gen.pub_keys} ELSE {}

\* new_joining with plan succeeds and yields an engine that agrees with
\* engine d on era, keys, parameters and the key generation in flight
JoinsLike(plan, d) ==
    /\ new_joining(JoinerId, JoinerId, plan).err = "None"
    /\ new_joining(JoinerId, JoinerId, plan).d.era = d.era
    /\ new_joining(JoinerId, JoinerId, plan).d.pub_keys = d.pub_keys
    /\ new_joining(JoinerId, JoinerId, plan).d.honey_badger.params = d.honey_badger.params
    /\ KeyGenFor(new_joining(JoinerId, JoinerId, plan).d) = KeyGenFor(d)

\* C18 as stated: for every batch B an engine emits with a change other
\* than None, new_joining applied to B.join_plan() succeeds and yields an
\* engine whose era is the emitter's era right after B, whose pub_keys and
\* params are the emitter's, and which has a key generation running for
\* key map k exactly when the emitter has one running for k.
JoinPlanRoundTrip ==
    (/\ last.op \in {"propose", "handle_message"}
     /\ Len(last.step.output) = 1
     /\ last.step.output[1].change # NoChange)
        => JoinsLike(join_plan(last.step.output[1]).plan, dhb)

\* the plan reports a completed change that its own keys or parameters
\* do not show
Mismatched(plan) ==
    /\ plan.change.state = "Complete"
    /\ \/ /\ plan.change.change.type = "EncryptionSchedule"
          /\ plan.change.change.schedule # plan.params.encryption_schedule
       \/ /\ plan.change.change.type = "NodeChange"
          /\ plan.change.change.pub_keys # plan.pub_keys

\* C19: new_joining returns Err(InvalidJoinPlan), constructing no engine,
\* exactly when the plan's change is Complete(EncryptionSchedule(s)) with s
\* other than plan.params.encryption_schedule or Complete(NodeChange(pks))
\* with pks other than plan.pub_keys; plans whose change is None or
\* InProgress are never rejected.
InvalidJoinPlanRejected ==
    last.op = "new_joining" =>
        /\ last.err = "InvalidJoinPlan" <=> Mismatched(last.plan)
        /\ last.err = "None" <=> ~Mismatched(last.plan)
        /\ joiner <=> last.err = "None"
        /\ last.plan.change.state \in {"None", "InProgress"} => last.err = "None"

\* a plan whose completed node change names other keys than the plan was
\* rejected, and no engine was built
InvalidJoinPlanRejectedWitness ==
    /\ last.op = "new_joining"
    /\ last.plan.change = Complete(NodeChange(Ka))
    /\ last.plan.pub_keys = Validators0
    /\ last.err = "InvalidJoinPlan"
    /\ ~joiner
    /\ dhb = BuiltEngine

\* the plan names a node change in progress
StartsKeyGen(plan) ==
    plan.change.state = "InProgress" /\ plan.change.change.type = "NodeChange"

\* the step that broadcasts the joiner's Part as a KeyGen message of era
FirstPartStep(era) ==
    [output |-> <<>>, fault_log |-> <<>>,
     messages |-> <<[target |-> "All",
                     message |-> MsgKeyGen(era, Part(TRUE), Sign(JoinerId, Part(TRUE)))]>>]

====
